---- MODULE Spec2Model ----
(***************************************************************************)
(* Model of the symbolic-compression codec: PerceptualAlchemyEncoder,      *)
(* PerceptualAlchemyDecoder, SymbolValidator and the PerceptualSystem      *)
(* facade with its memory buffer.                                          *)
(*                                                                         *)
(* A character is a one-element token ("A", "a", "0", "!", ...); the four  *)
(* complexity marks are the tokens "alpha", "beta", "gamma", "delta".      *)
(* A string is a sequence of such tokens.  Real values in [0,1] are        *)
(* integers in thousandths or ten-thousandths, as stated at each use.      *)
(***************************************************************************)
EXTENDS Integers, Sequences, FiniteSets, TLC

\* ------------------------------------------------------------------------
\* Characters and their UTF-16 code units
\* ------------------------------------------------------------------------
Upper ==
    <<"A","B","C","D","E","F","G","H","I","J","K","L","M",
      "N","O","P","Q","R","S","T","U","V","W","X","Y","Z">>

Lower ==
    <<"a","b","c","d","e","f","g","h","i","j","k","l","m",
      "n","o","p","q","r","s","t","u","v","w","x","y","z">>

Digits ==
    <<"0","1","2","3","4","5","6","7","8","9">>

Greek ==
    <<"alpha","beta","gamma","delta">>

Range(s) ==
    { s[i] : i \in 1..Len(s) }

UpperSet == Range(Upper)

LowerSet == Range(Lower)

DigitSet == Range(Digits)

GreekSet == Range(Greek)

\* Punctuation that occurs in the program: the depth and modifier
\* vocabularies, the hyphen of the focus names, the space trimmed by the
\* decoder, '?'.
PunctSet ==
    {" ", "!", "#", "$", "%", "*", "+", "-", "/", "=", "?", "@"}

IndexOf(s, c) ==
    CHOOSE i \in 1..Len(s) : s[i] = c

\* String.fromCharCode(NaN), the character of code 0
NulChar == "NUL"

CharCodes ==
    [ c \in UpperSet \cup LowerSet \cup DigitSet \cup GreekSet \cup PunctSet
             \cup {NulChar} |->
        IF c = NulChar THEN 0
        ELSE IF c \in UpperSet THEN 64 + IndexOf(Upper, c)
        ELSE IF c \in LowerSet THEN 96 + IndexOf(Lower, c)
        ELSE IF c \in DigitSet THEN 47 + IndexOf(Digits, c)
        ELSE IF c \in GreekSet THEN 944 + IndexOf(Greek, c)
        ELSE CASE c = " " -> 32
               [] c = "!" -> 33
               [] c = "#" -> 35
               [] c = "$" -> 36
               [] c = "%" -> 37
               [] c = "*" -> 42
               [] c = "+" -> 43
               [] c = "-" -> 45
               [] c = "/" -> 47
               [] c = "=" -> 61
               [] c = "?" -> 63
               [] c = "@" -> 64 ]

\* String.prototype.charCodeAt for one character
charCodeAt(c) ==
    CharCodes[c]

\* String.prototype.toLowerCase for one character
toLowerCase(c) ==
    IF c \in UpperSet THEN Lower[IndexOf(Upper, c)] ELSE c

\* A padEnd that pads nothing
padNothing(s, n, fill) ==
    s

\* String.prototype.padEnd(n, fill)
RECURSIVE padEnd(_, _, _)
padEnd(s, n, fill) ==
    IF Len(s) >= n THEN s ELSE padEnd(Append(s, fill), n, fill)

\* String.prototype.slice(from, to) with 0-based, end-exclusive indices
slice(s, from, to) ==
    LET t == IF to > Len(s) THEN Len(s) ELSE to
    IN  IF from >= t THEN << >> ELSE SubSeq(s, from + 1, t)

\* String.prototype.trim
RECURSIVE trimStart(_)
trimStart(s) ==
    IF s # << >> /\ Head(s) = " " THEN trimStart(Tail(s)) ELSE s

RECURSIVE trimEnd(_)
trimEnd(s) ==
    IF s # << >> /\ s[Len(s)] = " " THEN trimEnd(SubSeq(s, 1, Len(s) - 1)) ELSE s

trim(s) ==
    trimEnd(trimStart(s))

\* ------------------------------------------------------------------------
\* Checksum (SymbolValidator.calculateChecksum, the encoder's
\* generateReedSolomonParity and the decoder's calculateChecksum are the
\* same weighted sum)
\* ------------------------------------------------------------------------
RECURSIVE WeightedSum(_, _)
WeightedSum(payload, n) ==
    IF n = 0 THEN 0
    ELSE WeightedSum(payload, n - 1) + charCodeAt(payload[n]) * n

calculateChecksum(payload) ==
    Upper[(WeightedSum(payload, Len(payload)) % 26) + 1]

\* ------------------------------------------------------------------------
\* String literals of the program, spelled as character sequences
\* ------------------------------------------------------------------------
w_natural ==
    <<"n","a","t","u","r","a","l">>

w_architectural ==
    <<"a","r","c","h","i","t","e","c","t","u","r","a","l">>

w_portrait ==
    <<"p","o","r","t","r","a","i","t">>

w_complex ==
    <<"c","o","m","p","l","e","x">>

w_minimal ==
    <<"m","i","n","i","m","a","l">>

w_general ==
    <<"g","e","n","e","r","a","l">>

w_bright ==
    <<"b","r","i","g","h","t">>

w_dark ==
    <<"d","a","r","k">>

w_warm ==
    <<"w","a","r","m">>

w_cool ==
    <<"c","o","o","l">>

w_neutral ==
    <<"n","e","u","t","r","a","l">>

w_joyful ==
    <<"j","o","y","f","u","l">>

w_peaceful ==
    <<"p","e","a","c","e","f","u","l">>

w_tense ==
    <<"t","e","n","s","e">>

w_melancholic ==
    <<"m","e","l","a","n","c","h","o","l","i","c">>

w_high ==
    <<"h","i","g","h">>

w_medium ==
    <<"m","e","d","i","u","m">>

w_low ==
    <<"l","o","w">>

w_undefined ==
    <<"u","n","d","e","f","i","n","e","d">>

w_circle ==
    <<"c","i","r","c","l","e">>

w_square ==
    <<"s","q","u","a","r","e">>

w_organic ==
    <<"o","r","g","a","n","i","c">>

w_center ==
    <<"c","e","n","t","e","r">>

w_top_left ==
    <<"t","o","p","-","l","e","f","t">>

w_bottom_left ==
    <<"b","o","t","t","o","m","-","l","e","f","t">>

w_left ==
    <<"l","e","f","t">>

w_top_right ==
    <<"t","o","p","-","r","i","g","h","t">>

w_bottom_right ==
    <<"b","o","t","t","o","m","-","r","i","g","h","t">>

w_right ==
    <<"r","i","g","h","t">>

w_top ==
    <<"t","o","p">>

w_bottom ==
    <<"b","o","t","t","o","m">>

w_east ==
    <<"e","a","s","t">>

w_northeast ==
    <<"n","o","r","t","h","e","a","s","t">>

w_north ==
    <<"n","o","r","t","h">>

w_northwest ==
    <<"n","o","r","t","h","w","e","s","t">>

w_west ==
    <<"w","e","s","t">>

w_southwest ==
    <<"s","o","u","t","h","w","e","s","t">>

w_south ==
    <<"s","o","u","t","h">>

w_southeast ==
    <<"s","o","u","t","h","e","a","s","t">>

w_balanced ==
    <<"b","a","l","a","n","c","e","d">>

w_asymmetric ==
    <<"a","s","y","m","m","e","t","r","i","c">>

w_clustered ==
    <<"c","l","u","s","t","e","r","e","d">>

w_diagonal ==
    <<"d","i","a","g","o","n","a","l">>

w_empty ==
    <<"e","m","p","t","y">>

w_directional ==
    <<"d","i","r","e","c","t","i","o","n","a","l">>

w_stable ==
    <<"s","t","a","b","l","e">>

w_escalating ==
    <<"e","s","c","a","l","a","t","i","n","g">>

w_calming ==
    <<"c","a","l","m","i","n","g">>

w_brightening ==
    <<"b","r","i","g","h","t","e","n","i","n","g">>

w_darkening ==
    <<"d","a","r","k","e","n","i","n","g">>

w_intensifying ==
    <<"i","n","t","e","n","s","i","f","y","i","n","g">>

w_relaxing ==
    <<"r","e","l","a","x","i","n","g">>

w_forward ==
    <<"f","o","r","w","a","r","d">>

w_distant ==
    <<"d","i","s","t","a","n","t">>

w_centered ==
    <<"c","e","n","t","e","r","e","d">>

w_flat ==
    <<"f","l","a","t">>

\* ------------------------------------------------------------------------
\* DynamicVocabulary
\* ------------------------------------------------------------------------
\* The vocabularies with the complexity marks taken from the modifiers
vocabulariesWithModifier ==
    [ scene        |-> <<"A","B","C","D","E","F","G","H","I","J">>,
      light        |-> <<"K","L","M","N","O","P">>,
      mood         |-> <<"Q","R","S","T","U","V">>,
      object       |-> Lower,
      focus        |-> <<"W","X","Y","Z">>,
      distribution |-> <<"0","1","2","3","4">>,
      trend        |-> <<"5","6","7","8","9">>,
      complexity   |-> <<"+","-","*","/","=">>,
      depth        |-> <<"!","@","#","$","%">>,
      modifier     |-> <<"+","-","*","/","=">> ]

vocabularies ==
    [ scene        |-> <<"A","B","C","D","E","F","G","H","I","J">>,
      light        |-> <<"K","L","M","N","O","P">>,
      mood         |-> <<"Q","R","S","T","U","V">>,
      object       |-> Lower,
      focus        |-> <<"W","X","Y","Z">>,
      distribution |-> <<"0","1","2","3","4">>,
      trend        |-> <<"5","6","7","8","9">>,
      complexity   |-> Greek,
      depth        |-> <<"!","@","#","$","%">>,
      modifier     |-> <<"+","-","*","/","=">> ]

\* A 32-bit integer is kept as two 16-bit halves [hi, lo] so that the
\* arithmetic of the hash never leaves the range of machine integers.
Half == 256 * 256

\* hash = ((hash << 5) - hash) + c; hash = hash & hash
\* i.e. ToInt32(31 * hash + c)
hashStep(h, c) ==
    LET lo == 31 * h.lo + c
        hi == 31 * h.hi + (lo \div Half)
    IN  [hi |-> hi % Half, lo |-> lo % Half]

RECURSIVE hashOf(_, _)
hashOf(valueStr, n) ==
    IF n = 0 THEN [hi |-> 0, lo |-> 0]
    ELSE hashStep(hashOf(valueStr, n - 1), charCodeAt(valueStr[n]))

\* Math.abs(hash) % m for the signed 32-bit value held in h
absMod(h, m) ==
    LET neg == h.hi >= 32768
        \* two's complement negation: 2^32 - (hi * 2^16 + lo)
        nlo == (Half - h.lo) % Half
        nhi == (Half - h.hi - (IF h.lo = 0 THEN 0 ELSE 1)) % Half
        ahi == IF neg THEN nhi ELSE h.hi
        alo == IF neg THEN nlo ELSE h.lo
    IN  ((ahi % m) * (Half % m) + alo) % m

\* String(value).toLowerCase().replace(/[^a-z0-9]/g, '')
normalize(value) ==
    LET lowered == [i \in 1..Len(value) |-> toLowerCase(value[i])]
    IN  SelectSeq(lowered, LAMBDA c : c \in LowerSet \cup DigitSet)

\* The values handed to getSymbol
Words ==
    {w_natural, w_architectural, w_portrait, w_complex, w_minimal,
     w_general, w_bright, w_dark, w_warm, w_cool, w_neutral, w_joyful,
     w_peaceful, w_tense, w_melancholic, w_high, w_medium, w_low,
     w_undefined, w_circle, w_square, w_organic, w_center, w_top_left,
     w_bottom_left, w_left, w_top_right, w_bottom_right, w_right, w_top,
     w_bottom, w_east, w_northeast, w_north, w_northwest, w_west,
     w_southwest, w_south, w_southeast, w_balanced, w_asymmetric,
     w_clustered, w_diagonal, w_empty, w_directional, w_stable,
     w_escalating, w_calming, w_brightening, w_darkening, w_intensifying,
     w_relaxing, w_forward, w_distant, w_centered, w_flat}

\* The hash loop of getSymbol, tabulated over the values it is given
hashTable ==
    [ value \in Words |-> hashOf(normalize(value), Len(normalize(value))) ]

getSymbol(category, value) ==
    LET vocab == vocabularies[category]
    IN  vocab[absMod(hashTable[value], Len(vocab)) + 1]

\* getSymbolWithLength for the 'object' category: the base letter followed
\* by its successors in the alphabet (wrapping), cut to `length`
getSymbolWithLength(value, length) ==
    LET base == getSymbol("object", value)
        b0   == charCodeAt(base) - 97
        code == [i \in 1..length |-> Lower[((b0 + (i - 1)) % 26) + 1]]
    IN  slice(code, 0, length)

\* NaN, the sum or product with an undefined operand
NaN == 0 - 1

\* quantizeToSymbol: floor(value * 25) clamped to 0..25, value in
\* ten-thousandths; Math.max(0, Math.min(25, NaN)) is NaN and
\* String.fromCharCode(65 + NaN) the character of code 0
quantizeToSymbol(value) ==
    LET idx == (value * 25) \div 10000
        cl  == IF idx < 0 THEN 0 ELSE IF idx > 25 THEN 25 ELSE idx
    IN  IF value = NaN THEN NulChar ELSE Upper[cl + 1]

\* ------------------------------------------------------------------------
\* PerceptualAlchemyEncoder
\*
\* An image is given by what analyzePerception extracts from it: the
\* shapes in the order extractShapes returns them, the edge density, the
\* colour analysis and the visual emotion (all values in thousandths).
\* `priority` of a shape is culturalWeight * saliency; NaN (the value the
\* product has when symbolWeight was never assigned) compares false with
\* every threshold.
\* ------------------------------------------------------------------------
budgets ==
    [ mobile   |-> [total |-> 16, scene |-> 3, objects |-> 6,  spatial |-> 4, emotion |-> 3],
      balanced |-> [total |-> 26, scene |-> 4, objects |-> 12, spatial |-> 6, emotion |-> 4],
      rich     |-> [total |-> 32, scene |-> 4, objects |-> 14, spatial |-> 8, emotion |-> 6] ]

Modes == {"mobile", "balanced", "rich"}

MinImageSide == 16

\* encode(undefined) or encode(null)
NoImage ==
    [missing |-> TRUE]

\* A validation of the width alone
validateInputWidth(imageData) ==
    /\ imageData # NoImage
    /\ imageData.hasData
    /\ imageData.width # 0
    /\ ~ (imageData.width < MinImageSide)

\* validateInput: TRUE when it returns, FALSE when it throws.  Without an
\* image, encode throws before it, on reading imageData.width.
validateInput(imageData) ==
    /\ imageData # NoImage
    /\ imageData.hasData
    /\ imageData.width # 0
    /\ imageData.height # 0
    /\ ~ (imageData.width < MinImageSide \/ imageData.height < MinImageSide)

Includes(shapes, type) ==
    \E i \in 1..Len(shapes) : shapes[i].type = type

classifySceneType(perception) ==
    IF Includes(perception.shapes, w_organic) /\ perception.temperature > 600
        THEN w_natural
    ELSE IF Includes(perception.shapes, w_square) THEN w_architectural
    ELSE IF Len(perception.shapes) = 1 /\ perception.shapes[1].area > 1000
        THEN w_portrait
    ELSE IF perception.edgeDensity > 300 THEN w_complex
    ELSE IF perception.edgeDensity < 50 THEN w_minimal
    ELSE w_general

classifyLighting(perception) ==
    IF perception.brightness > 800 THEN w_bright
    ELSE IF perception.brightness < 200 THEN w_dark
    ELSE IF perception.temperature > 700 THEN w_warm
    ELSE IF perception.temperature < 300 THEN w_cool
    ELSE w_neutral

\* A blend at equal weights, in the same unit
blendEmotionsEvenly(visual, contextual) ==
    [ valence |-> 5 * visual.valence + 5 * contextual.valence,
      arousal |-> 5 * visual.arousal + 5 * contextual.arousal ]

\* blendEmotions: 0.7 * visual + 0.3 * contextual.  The result is kept in
\* ten-thousandths (7 * v + 3 * c) so that no rounding is introduced.
blendEmotions(visual, contextual) ==
    LET blend(v, c) == IF c = NaN THEN NaN ELSE 7 * v + 3 * c
    IN  [ valence |-> blend(visual.valence, contextual.valence),
          arousal |-> blend(visual.arousal, contextual.arousal) ]

\* dominantMood on a blended emotion (ten-thousandths)
dominantMood(current) ==
    LET v == current.valence
        a == current.arousal
        lt(x, bound) == x # NaN /\ x < bound
    IN  IF v > 6000 /\ a > 6000 THEN w_joyful
        ELSE IF v > 6000 /\ lt(a, 4000) THEN w_peaceful
        ELSE IF lt(v, 4000) /\ a > 6000 THEN w_tense
        ELSE IF lt(v, 4000) /\ lt(a, 4000) THEN w_melancholic
        ELSE w_neutral

\* calculateSceneComplexity:
\* (count/10)*0.4 + density*0.4 + (clusters/5)*0.2, in thousandths
calculateSceneComplexity(perception) ==
    LET complexity == 40 * Len(perception.shapes)
                      + (4 * perception.edgeDensity) \div 10
                      + 40 * perception.clusters
    IN  IF complexity > 700 THEN w_high
        ELSE IF complexity > 300 THEN w_medium
        ELSE w_low

encodeSceneContext(perception, current, budget) ==
    LET context == << getSymbol("scene", classifySceneType(perception)),
                      getSymbol("light", classifyLighting(perception)),
                      getSymbol("mood", dominantMood(current)) >>
    IN  IF budget > 3
        THEN Append(context,
                    getSymbol("complexity", calculateSceneComplexity(perception)))
        ELSE context

\* encodePosition with length 1: the cell of the coarse 3x3 grid
encodePosition(centroid, imageWidth, imageHeight) ==
    LET gridX   == (centroid.x * 3) \div imageWidth
        gridY   == (centroid.y * 3) \div imageHeight
        gridPos == gridY * 3 + gridX
        cl      == IF gridPos < 0 THEN 0 ELSE IF gridPos > 8 THEN 8 ELSE gridPos
    IN  Lower[cl + 1]

symbolLengthOf(priority) ==
    IF priority # NaN /\ priority > 800 THEN 1
    ELSE IF priority # NaN /\ priority > 500 THEN 2
    ELSE 3

\* The loop of encodeObjectsWithEntropy from shape i on
RECURSIVE encodeObjectsFrom(_, _, _, _, _, _)
encodeObjectsFrom(shapes, i, acc, budget, imageWidth, imageHeight) ==
    IF ~ (i <= Len(shapes) /\ Len(acc) < budget) THEN acc
    ELSE LET shape        == shapes[i]
             symbolLength == symbolLengthOf(shape.priority)
         IN  IF Len(acc) + symbolLength + 1 > budget THEN acc
             ELSE encodeObjectsFrom(shapes, i + 1,
                      acc \o getSymbolWithLength(shape.type, symbolLength)
                          \o << encodePosition(shape.centroid, imageWidth, imageHeight) >>,
                      budget, imageWidth, imageHeight)

\* The number of shapes the loop of encodeObjectsWithEntropy has pushed
\* when it ends, from shape i on with currentLength characters so far
RECURSIVE encodedObjects(_, _, _, _)
encodedObjects(shapes, i, currentLength, budget) ==
    IF ~ (i <= Len(shapes) /\ currentLength < budget) THEN 0
    ELSE LET symbolLength == symbolLengthOf(shapes[i].priority)
         IN  IF currentLength + symbolLength + 1 > budget THEN 0
             ELSE 1 + encodedObjects(shapes, i + 1,
                                     currentLength + symbolLength + 1, budget)

encodeObjectsWithEntropy(shapes, budget, imageWidth, imageHeight) ==
    IF Len(shapes) = 0 THEN padEnd(<< >>, budget, "0")
    ELSE padEnd(encodeObjectsFrom(shapes, 1, << >>, budget, imageWidth, imageHeight),
                budget, "0")

\* determinePrimaryFocus: the region of the first shape's centroid
determinePrimaryFocus(shapes, width, height) ==
    IF Len(shapes) = 0 THEN w_center
    ELSE LET c    == shapes[1].centroid
             lowX == 100 * c.x < 33 * width
             hiX  == 100 * c.x > 67 * width
             lowY == 100 * c.y < 33 * height
             hiY  == 100 * c.y > 67 * height
         IN  IF lowX
             THEN (IF lowY THEN w_top_left ELSE IF hiY THEN w_bottom_left ELSE w_left)
             ELSE IF hiX
             THEN (IF lowY THEN w_top_right ELSE IF hiY THEN w_bottom_right ELSE w_right)
             ELSE (IF lowY THEN w_top ELSE IF hiY THEN w_bottom ELSE w_center)

\* estimateDepthMap: depthScore = 0.7 * area/(w*h) - 0.3 * y/h of each shape,
\* compared with 0.1 and 0 (scaled by 10 * w * h)
depthLayerOf(shape, width, height) ==
    LET score == 7 * shape.area - 3 * shape.centroid.y * width
    IN  IF score > width * height THEN "foreground"
        ELSE IF score > 0 THEN "midground"
        ELSE "background"

estimateDepthMap(shapes, width, height) ==
    LET count(layer) ==
            Cardinality({ i \in 1..Len(shapes) :
                            depthLayerOf(shapes[i], width, height) = layer })
    IN  [ foreground |-> count("foreground"),
          midground  |-> count("midground"),
          background |-> count("background") ]

\* quantizeDepthToLayers (the depth map of analyzeSpatial is never null)
quantizeDepthToLayers(depthMap) ==
    LET total == depthMap.foreground + depthMap.midground + depthMap.background
    IN  IF total = 0 THEN [distribution |-> w_empty, foregroundWeight |-> 0]
        ELSE [ distribution |->
                  IF 10 * depthMap.foreground > 6 * total THEN w_forward
                  ELSE IF 10 * depthMap.background > 6 * total THEN w_distant
                  ELSE IF 10 * depthMap.midground > 6 * total THEN w_centered
                  ELSE w_balanced,
               foregroundWeight |-> (10000 * depthMap.foreground) \div total ]

encodeDepthLayers(depthMap, availableChars) ==
    IF availableChars <= 0 THEN << >>
    ELSE LET layers == quantizeDepthToLayers(depthMap)
             first  == << getSymbol("depth", layers.distribution) >>
         IN  IF availableChars >= 2
             THEN Append(first, quantizeToSymbol(layers.foregroundWeight))
             ELSE first

mapRadialToFocus(sector) ==
    LET sectorNames == << w_east, w_northeast, w_north, w_northwest,
                          w_west, w_southwest, w_south, w_southeast >>
    IN  IF sector >= 0 /\ sector < 8 THEN sectorNames[sector + 1] ELSE w_center

\* The spatial analysis after applyCulturalLens: the radial grammars
\* (japanese, norse) replace focus and pattern by the radial ones
culturalSpatial(perception, culture) ==
    IF culture \in {"japanese", "norse"}
    THEN [ primaryFocus |-> mapRadialToFocus(perception.radialSector),
           pattern      |-> perception.radialPattern ]
    ELSE [ primaryFocus |-> determinePrimaryFocus(perception.shapes,
                                                  perception.width, perception.height),
           pattern      |-> perception.pattern ]

encodeSpatialWithDepth(perception, culture, budget) ==
    LET base(spatial) == << getSymbol("focus", spatial.primaryFocus),
                            getSymbol("distribution", spatial.pattern) >>
        code    == base(culturalSpatial(perception, culture))
                   \o (IF budget > 2
                       THEN encodeDepthLayers(
                                estimateDepthMap(perception.shapes,
                                                 perception.width, perception.height),
                                budget - 2)
                       ELSE << >>)
        cut(c)  == IF Len(c) > budget THEN slice(c, 0, budget) ELSE c
    IN  padEnd(cut(code), budget, "X")

\* The emotional trajectory buffer keeps at most this many samples
MaxEmotionalBuffer == 10

\* An analyzeEmotion that evicts the newest sample instead of the oldest
pushEmotionDropNewest(buffer, sample) ==
    LET pushed == Append(buffer, sample)
    IN  IF Len(pushed) > MaxEmotionalBuffer
        THEN SubSeq(pushed, 1, MaxEmotionalBuffer)
        ELSE pushed

\* analyzeEmotion, the buffer part: push the sample, shift when over 10
pushEmotion(buffer, sample) ==
    LET pushed == Append(buffer, sample)
    IN  IF Len(pushed) > MaxEmotionalBuffer THEN Tail(pushed) ELSE pushed

\* calculateEmotionalTrajectory over the (already updated) buffer; deltas of
\* the visual emotion in thousandths, mean over the last three samples
calculateEmotionalTrajectory(buffer) ==
    IF Len(buffer) < 2 THEN w_stable
    ELSE LET abs(x) == IF x < 0 THEN 0 - x ELSE x
             \* n deltas whose sums are vSum and aSum; x / n is compared
             \* with 0.1 (100 thousandths)
             trend(n, vSum, aSum) ==
                 LET gt(x) == x > 100 * n
                     lt(x) == x < 0 - 100 * n
                 IN  IF abs(vSum) < 100 * n /\ abs(aSum) < 100 * n THEN w_stable
                     ELSE IF gt(vSum) /\ gt(aSum) THEN w_escalating
                     ELSE IF lt(vSum) /\ lt(aSum) THEN w_calming
                     ELSE IF gt(vSum) THEN w_brightening
                     ELSE IF lt(vSum) THEN w_darkening
                     ELSE IF gt(aSum) THEN w_intensifying
                     ELSE w_relaxing
             \* the sum of successive differences telescopes
             over(recent) ==
                 trend(Len(recent) - 1,
                       recent[Len(recent)].valence - recent[1].valence,
                       recent[Len(recent)].arousal - recent[1].arousal)
         IN  over(slice(buffer, IF Len(buffer) > 3 THEN Len(buffer) - 3 ELSE 0,
                        Len(buffer)))

\* context.emotion || { valence: 0.5, arousal: 0.5 }
NoEmotion == [valence |-> NaN, arousal |-> NaN]

contextualEmotionOf(context) ==
    IF context.emotion = NoEmotion
    THEN [valence |-> 500, arousal |-> 500]
    ELSE context.emotion

\* analyzeEmotion: the new buffer and the emotion record
analyzeEmotion(buffer, perception, context) ==
    LET contextual == contextualEmotionOf(context)
        pushed(buffer2) ==
            [ buffer     |-> buffer2,
              current    |-> blendEmotions(perception.visual, contextual),
              trajectory |-> calculateEmotionalTrajectory(buffer2),
              resonance  |-> perception.resonance ]
    IN  pushed(pushEmotion(buffer, perception.visual))

encodeEmotionalTrajectory(emotion, budget) ==
    LET state == << quantizeToSymbol(emotion.current.valence),
                    quantizeToSymbol(emotion.current.arousal) >>
        trend == IF budget > 2
                 THEN Append(state, getSymbol("trend", emotion.trajectory))
                 ELSE state
        reson == IF budget > 3
                 THEN Append(trend, quantizeToSymbol(emotion.resonance))
                 ELSE trend
    IN  padEnd(reson, budget, "5")

\* The defensive segment validation of encodeToSymbols
ObjectAlphabet ==
    LowerSet \cup {"0"}

SpatialAlphabet ==
    {"W","X","Y","Z","0","1","2","3","4","!","@","#","$","%"} \cup UpperSet

segmentsValid(objectCode, spatialCode) ==
    /\ \A i \in 1..Len(objectCode) : objectCode[i] \in ObjectAlphabet
    /\ \A i \in 1..Len(spatialCode) : spatialCode[i] \in SpatialAlphabet

\* encodeToSymbols: the four segments, or a raise from the validation
encodeToSymbols(perception, emotion, mode, culture) ==
    LET budget == budgets[mode]
        joined(scene, objects, spatial, emo) ==
            [ raised  |-> ~ segmentsValid(objects, spatial),
              scene   |-> scene,
              objects |-> objects,
              spatial |-> spatial,
              emotion |-> emo,
              code    |-> scene \o objects \o spatial \o emo ]
    IN  joined(encodeSceneContext(perception, emotion.current, budget.scene),
               encodeObjectsWithEntropy(perception.shapes, budget.objects,
                                        perception.width, perception.height),
               encodeSpatialWithDepth(perception, culture, budget.spatial),
               encodeEmotionalTrajectory(emotion, budget.emotion))

\* generateReedSolomonParity
generateReedSolomonParity(data) ==
    calculateChecksum(data)

\* addReedSolomonErrorCorrection: the code and the first parity symbol
addReedSolomonErrorCorrection(code) ==
    Append(code, generateReedSolomonParity(code))

\* ------------------------------------------------------------------------
\* analyzePerception on the pixels.  An image whose `paint` is a colour is a
\* buffer of width * height pixels of that colour, [r, g, b, a]; an image
\* whose paint is NoPaint is given by the features extracted from it.
\* ------------------------------------------------------------------------
NoPaint == << >>

Colour(r, g, b, a) ==
    [r |-> r, g |-> g, b |-> b, a |-> a]

\* data[4 * pixelIndex ..], for 0 <= pixelIndex < width * height
pixelAt(imageData, pixelIndex) ==
    imageData.paint

\* getLuminance, in thousandths; 0 past the end of the buffer
getLuminance(imageData, pixelIndex) ==
    IF pixelIndex * 4 + 2 >= imageData.width * imageData.height * 4 THEN 0
    ELSE LET px == pixelAt(imageData, pixelIndex)
         IN  299 * px.r + 587 * px.g + 114 * px.b

\* The gradient of detectEdges at an inner pixel (thousandths)
sobelAt(imageData, x, y) ==
    LET width == imageData.width
        tl == getLuminance(imageData, (y - 1) * width + (x - 1))
        tm == getLuminance(imageData, (y - 1) * width + x)
        tr == getLuminance(imageData, (y - 1) * width + (x + 1))
        ml == getLuminance(imageData, y * width + (x - 1))
        mr == getLuminance(imageData, y * width + (x + 1))
        bl == getLuminance(imageData, (y + 1) * width + (x - 1))
        bm == getLuminance(imageData, (y + 1) * width + x)
        br == getLuminance(imageData, (y + 1) * width + (x + 1))
    IN  [ gx |-> 0 - tl + tr - 2 * ml + 2 * mr - bl + br,
          gy |-> 0 - tl - 2 * tm - tr + bl + 2 * bm + br ]

\* detectEdges: the edge map, each entry the gradient whose length is the
\* edge value; the border pixels keep the initial 0
detectEdges(imageData) ==
    [ idx \in 0..(imageData.width * imageData.height - 1) |->
        LET x == idx % imageData.width
            y == idx \div imageData.width
        IN  IF /\ x >= 1 /\ x < imageData.width - 1
               /\ y >= 1 /\ y < imageData.height - 1
            THEN sobelAt(imageData, x, y)
            ELSE [gx |-> 0, gy |-> 0] ]

\* EDGE_THRESHOLD of an encoder in mode `mode`
EDGE_THRESHOLD(mode) ==
    IF mode = "mobile" THEN 50 ELSE 30

\* edges[i] > 0
edgePositive(edge) ==
    edge.gx # 0 \/ edge.gy # 0

\* edges[i] > threshold: sqrt(gx^2 + gy^2) > threshold, compared in tenths
edgeOver(edge, threshold) ==
    LET abs(v) == IF v < 0 THEN 0 - v ELSE v
        qx == abs(edge.gx) \div 100
        qy == abs(edge.gy) \div 100
    IN  qx * qx + qy * qy > (10 * threshold) * (10 * threshold)

\* calculateEdgeDensity, in thousandths
calculateEdgeDensity(edges, threshold) ==
    LET total == Cardinality({ i \in DOMAIN edges : edgePositive(edges[i]) })
        count == Cardinality({ i \in DOMAIN edges :
                                 edgePositive(edges[i]) /\ edgeOver(edges[i], threshold) })
    IN  IF total > 0 THEN (1000 * count) \div total ELSE 0

\* Direction vectors of the contour following
directions ==
    << <<1, 0>>, <<1, 1>>, <<0, 1>>, <<0 - 1, 1>>,
       <<0 - 1, 0>>, <<0 - 1, 0 - 1>>, <<0, 0 - 1>>, <<1, 0 - 1>> >>

\* A search for the next edge point that does not look at `visited`
RECURSIVE nextEdgePointRevisiting(_, _, _, _, _, _, _, _)
nextEdgePointRevisiting(over, visited, x, y, direction, i, width, height) ==
    IF i >= 8 THEN 8
    ELSE LET d  == directions[((direction + i) % 8) + 1]
             nx == x + d[1]
             ny == y + d[2]
         IN  IF /\ nx >= 0 /\ nx < width /\ ny >= 0 /\ ny < height
                /\ (ny * width + nx) \in over
             THEN i
             ELSE nextEdgePointRevisiting(over, visited, x, y, direction, i + 1,
                                          width, height)

\* The search for the next edge point from (x, y): the first i in i..7
\* whose neighbour in direction (direction + i) % 8 lies inside the image,
\* is over the threshold and was not visited; 8 when there is none.
\* `over` is the set of the pixel indices whose edge is over the threshold.
RECURSIVE nextEdgePoint(_, _, _, _, _, _, _, _)
nextEdgePoint(over, visited, x, y, direction, i, width, height) ==
    IF i >= 8 THEN 8
    ELSE LET d  == directions[((direction + i) % 8) + 1]
             nx == x + d[1]
             ny == y + d[2]
         IN  IF /\ nx >= 0 /\ nx < width /\ ny >= 0 /\ ny < height
                /\ (ny * width + nx) \in over
                /\ (ny * width + nx) \notin visited
             THEN i
             ELSE nextEdgePoint(over, visited, x, y, direction, i + 1, width, height)

\* The do-while loop of marchingSquares, entered at (x, y)
RECURSIVE contourWalk(_, _, _, _, _, _, _, _, _, _)
contourWalk(over, visited, x, y, direction, points, steps, start, width, height) ==
    LET visited2 == visited \cup {y * width + x}
        points2  == Append(points, [x |-> x, y |-> y])
        i        == nextEdgePoint(over, visited2, x, y, direction, 0, width, height)
    IN  IF i = 8 THEN [points |-> points2, visited |-> visited2]
        ELSE LET newDir == (direction + i) % 8
                 nx     == x + directions[newDir + 1][1]
                 ny     == y + directions[newDir + 1][2]
             IN  IF ~ ((nx # start.x \/ ny # start.y) /\ steps + 1 < width * height)
                 THEN [points |-> points2, visited |-> visited2]
                 ELSE contourWalk(over, visited2, nx, ny, (newDir + 6) % 8,
                                  points2, steps + 1, start, width, height)

RECURSIVE SumOf(_, _)
SumOf(points, coordinate) ==
    IF points = << >> THEN 0
    ELSE (IF coordinate = "x" THEN Head(points).x ELSE Head(points).y)
         + SumOf(Tail(points), coordinate)

\* marchingSquares from (startX, startY): the shape and the pixels visited.
\* The type and the symbol weight of a shape are never assigned; the
\* centroid is kept in whole pixels.
marchingSquares(over, visited, startX, startY, width, height) ==
    LET traced(walked, n) ==
            [ shape   |-> [ type     |-> w_undefined,
                            priority |-> NaN,
                            centroid |-> [ x |-> SumOf(walked.points, "x") \div n,
                                           y |-> SumOf(walked.points, "y") \div n ],
                            area     |-> n,
                            points   |-> walked.points ],
              visited |-> walked.visited ]
        closed(walked) == traced(walked, Len(walked.points))
    IN  closed(contourWalk(over, visited, startX, startY, 0, << >>, 0,
                           [x |-> startX, y |-> startY], width, height))

\* The scan of extractShapes from the first unvisited edge pixel on
RECURSIVE extractShapesFrom(_, _, _, _, _)
extractShapesFrom(over, visited, shapes, width, height) ==
    LET pending == over \ visited
    IN  IF pending = {} THEN shapes
        ELSE LET scanned(result) ==
                     extractShapesFrom(over, result.visited,
                                       Append(shapes, result.shape), width, height)
                 from(idx) ==
                     scanned(marchingSquares(over, visited, idx % width,
                                             idx \div width, width, height))
             IN  from(CHOOSE i \in pending : \A j \in pending : i <= j)

extractShapes(edges, width, height, threshold) ==
    extractShapesFrom({ i \in DOMAIN edges : edgeOver(edges[i], threshold) },
                      {}, << >>, width, height)

\* analyzeColors, the samples: the opaque pixels of every fourth row and
\* column (SAMPLE_RATE * 4), or one white sample when there is none
colorSamples(imageData) ==
    LET step  == 4
        cols  == (imageData.width + step - 1) \div step
        rows  == (imageData.height + step - 1) \div step
        all   == [ k \in 1..(rows * cols) |->
                     pixelAt(imageData,
                             (((k - 1) \div cols) * step) * imageData.width
                               + ((k - 1) % cols) * step) ]
        found == SelectSeq(all, LAMBDA px : px.a # 0)
    IN  IF found = << >> THEN << Colour(255, 255, 255, 255) >> ELSE found

\* calculateCIEDE2000: 0 between equal colours; the colours of the model
\* that differ are black, grey and white, further apart than every
\* threshold the clustering compares with (1, 20 and 80 are not between)
calculateCIEDE2000(color1, color2) ==
    IF color1.r = color2.r /\ color1.g = color2.g /\ color1.b = color2.b
    THEN 0
    ELSE 100

RECURSIVE SumSeq(_)
SumSeq(values) ==
    IF values = << >> THEN 0 ELSE Head(values) + SumSeq(Tail(values))

\* min over the cluster centres of the distance to the sample, squared
distanceToCentres(sample, centres) ==
    LET dists == { calculateCIEDE2000(sample, centres[k]) : k \in 1..Len(centres) }
        m     == CHOOSE d \in dists : \A e \in dists : d <= e
    IN  m * m

\* The for loop after `random = Math.random() * totalDist`: the index of
\* the first sample at which random -= distances[i] is <= 0, or 0
RECURSIVE pickByDistance(_, _, _)
pickByDistance(distances, random, i) ==
    IF i > Len(distances) THEN 0
    ELSE IF random - distances[i] <= 0 THEN i
    ELSE pickByDistance(distances, random - distances[i], i + 1)

\* k-means++: centres are added until there are min(maxClusters, samples);
\* a round that pushes nothing repeats for ever (result << >> here)
RECURSIVE seedCentres(_, _, _)
seedCentres(centres, samples, random) ==
    LET wanted == IF Len(samples) < 8 THEN Len(samples) ELSE 8
    IN  IF ~ (Len(centres) < wanted) THEN centres
        ELSE LET distances == [ i \in 1..Len(samples) |->
                                  distanceToCentres(samples[i], centres) ]
                 totalDist == SumSeq(distances)
                 picked    == pickByDistance(distances,
                                             (random * totalDist) \div 1000, 1)
             IN  IF picked = 0 THEN << >>
                 ELSE seedCentres(Append(centres, samples[picked]), samples, random)

\* The cluster a sample is assigned to: the first one at the least distance
nearestCluster(sample, centres) ==
    CHOOSE k \in 1..Len(centres) :
        /\ \A j \in 1..Len(centres) :
               calculateCIEDE2000(sample, centres[k])
                 <= calculateCIEDE2000(sample, centres[j])
        /\ \A j \in 1..(k - 1) :
               calculateCIEDE2000(sample, centres[j])
                 > calculateCIEDE2000(sample, centres[k])

meanColour(members) ==
    LET n == Len(members)
    IN  Colour(SumSeq([i \in 1..n |-> members[i].r]) \div n,
               SumSeq([i \in 1..n |-> members[i].g]) \div n,
               SumSeq([i \in 1..n |-> members[i].b]) \div n, 255)

\* One iteration of the k-means loop and the ones after it
RECURSIVE kMeans(_, _, _)
kMeans(centres, samples, iter) ==
    LET membersOf(k) == SelectSeq(samples, LAMBDA s : nearestCluster(s, centres) = k)
        moved(k)     == /\ membersOf(k) # << >>
                        /\ calculateCIEDE2000(centres[k], meanColour(membersOf(k))) > 1
        centres2     == [ k \in 1..Len(centres) |->
                            IF moved(k) THEN meanColour(membersOf(k)) ELSE centres[k] ]
        changed      == \E k \in 1..Len(centres) : moved(k)
    IN  IF changed /\ iter + 1 < 50
        THEN kMeans(centres2, samples, iter + 1)
        ELSE [ k \in 1..Len(centres) |->
                 [ center  |-> centres2[k],
                   samples |-> Len(membersOf(k)),
                   weight  |-> (1000 * Len(membersOf(k))) \div Len(samples) ] ]

\* The clusters in the order of sort((a, b) => b.weight - a.weight)
RECURSIVE sortByWeight(_)
sortByWeight(clusters) ==
    IF clusters = << >> THEN << >>
    ELSE LET k == CHOOSE i \in 1..Len(clusters) :
                      /\ \A j \in 1..Len(clusters) :
                             clusters[i].weight >= clusters[j].weight
                      /\ \A j \in 1..(i - 1) :
                             clusters[j].weight < clusters[i].weight
         IN  << clusters[k] >>
             \o sortByWeight(SubSeq(clusters, 1, k - 1)
                             \o SubSeq(clusters, k + 1, Len(clusters)))

\* A clustering that keeps the clusters no sample was assigned to
clusterColorsKeepEmpty(samples, random) ==
    LET first == samples[((random * Len(samples)) \div 1000) + 1]
    IN  sortByWeight(kMeans(seedCentres(<< first >>, samples, random), samples, 0))

\* clusterColorsCIEDE2000; `random` is the value of Math.random()
clusterColorsCIEDE2000(samples, random) ==
    LET first == samples[((random * Len(samples)) \div 1000) + 1]
    IN  sortByWeight(
            SelectSeq(kMeans(seedCentres(<< first >>, samples, random), samples, 0),
                      LAMBDA c : c.samples > 0))

\* calculateColorTemperature, in thousandths
calculateColorTemperature(clusters) ==
    LET warmth(c)   == ((c.center.r - c.center.b) * 1000) \div 255 + 500
        totalWarmth == SumSeq([k \in 1..Len(clusters) |->
                                  warmth(clusters[k]) * clusters[k].weight])
        totalWeight == SumSeq([k \in 1..Len(clusters) |-> clusters[k].weight])
    IN  IF totalWeight > 0 THEN totalWarmth \div totalWeight ELSE 500

\* The brightness classifyLighting reads off the first cluster (thousandths)
clusterBrightness(clusters) ==
    IF clusters # << >>
    THEN ((clusters[1].center.r + clusters[1].center.g + clusters[1].center.b) * 1000)
           \div (3 * 255)
    ELSE 500

\* analyzePerception of a painted image by an encoder in mode `mode`: the
\* features of the image with the shapes, the edge density and the colour
\* analysis computed from the pixels
analyzePixels(imageData, mode, random) ==
    LET analysed(edges, clusters) ==
            [ imageData EXCEPT
                !.shapes = extractShapes(edges, imageData.width, imageData.height,
                                         EDGE_THRESHOLD(mode)),
                !.edgeDensity = calculateEdgeDensity(edges, EDGE_THRESHOLD(mode)),
                !.clusters = Len(clusters),
                !.clusterWeights = [k \in 1..Len(clusters) |-> clusters[k].weight],
                !.temperature = calculateColorTemperature(clusters),
                !.brightness = clusterBrightness(clusters) ]
    IN  analysed(detectEdges(imageData),
                 clusterColorsCIEDE2000(colorSamples(imageData), random))

\* ------------------------------------------------------------------------
\* Images
\* ------------------------------------------------------------------------
\* The results of Math.random(), in thousandths
Randoms ==
    {0, 500, 999}

Shape(type, priority, x, y, area) ==
    [type |-> type, priority |-> priority, centroid |-> [x |-> x, y |-> y],
     area |-> area]

\* A painted image: width * height pixels of one opaque grey.  The
\* features computed from the pixels are filled in by analyzePerception;
\* the others are those of an image without shapes whose colours have no
\* warmth and no saturation: visual emotion (sigmoid(0.3), sigmoid(-0.5))
\* and resonance (0.3 * brightness + 0.5) / 3.
Painted(width, height, grey) ==
    [ width |-> width, height |-> height, hasData |-> TRUE,
      paint |-> Colour(grey, grey, grey, 255),
      shapes |-> << >>,
      edgeDensity |-> 0, temperature |-> 0, brightness |-> 0, clusters |-> 0,
      clusterWeights |-> << >>,
      visual |-> [valence |-> 574, arousal |-> 378],
      resonance |-> (10 * ((300 * grey) \div 255 + 500)) \div 3,
      pattern |-> w_empty, radialSector |-> 0, radialPattern |-> w_balanced ]

\* A uniform opaque white 32x32 image, given by the features that
\* analyzePerception extracts from Painted(32, 32, 255)
ImgBlank ==
    [ Painted(32, 32, 255) EXCEPT
        !.paint = NoPaint, !.temperature = 500, !.brightness = 1000,
        !.clusters = 1, !.clusterWeights = << 1000 >> ]

\* A busy warm 280x200 image as extractShapes really returns it: shapes
\* without type whose priority is NaN, the first ones met in the top rows
ImgBusy ==
    [ width |-> 280, height |-> 200, hasData |-> TRUE, paint |-> NoPaint,
      shapes |-> << Shape(w_undefined, NaN, 10, 5, 5),
                    Shape(w_undefined, NaN, 40, 6, 4),
                    Shape(w_undefined, NaN, 70, 8, 9),
                    Shape(w_undefined, NaN, 150, 120, 30) >>,
      edgeDensity |-> 900, temperature |-> 750, brightness |-> 500, clusters |-> 8,
      clusterWeights |-> << >>,
      visual |-> [valence |-> 600, arousal |-> 500], resonance |-> 4974,
      pattern |-> w_balanced, radialSector |-> 0 - 1, radialPattern |-> w_directional ]

\* A dark 64x64 image with classified shapes of decreasing priority
ImgTyped ==
    [ width |-> 64, height |-> 64, hasData |-> TRUE, paint |-> NoPaint,
      shapes |-> << Shape(w_circle, 900, 32, 10, 1200),
                    Shape(w_organic, 600, 60, 60, 300),
                    Shape(w_square, 300, 5, 40, 40) >>,
      edgeDensity |-> 200, temperature |-> 200, brightness |-> 100, clusters |-> 3,
      clusterWeights |-> << >>,
      visual |-> [valence |-> 300, arousal |-> 800], resonance |-> 7000,
      pattern |-> w_diagonal, radialSector |-> 5, radialPattern |-> w_balanced ]

\* An image below the minimum size
ImgSmall ==
    Painted(8, 8, 255)

\* An image of 32x8, and an object without pixel data
ImgFlat ==
    [ImgBlank EXCEPT !.height = 8]

ImgNoData ==
    [ImgBlank EXCEPT !.hasData = FALSE]

Images ==
    {ImgBlank, ImgBusy, ImgTyped, ImgSmall, ImgFlat, ImgNoData, NoImage}

\* The dark image with its shapes detected in any order, some or all
ShapeLists ==
    LET kit == ImgTyped.shapes
    IN  { << kit[i] >> : i \in 1..3 }
        \cup { << kit[p[1]], kit[p[2]] >> :
                 p \in { q \in (1..3) \X (1..3) : q[1] # q[2] } }
        \cup { << kit[p[1]], kit[p[2]], kit[p[3]] >> :
                 p \in { q \in (1..3) \X (1..3) \X (1..3) :
                            Cardinality({q[1], q[2], q[3]}) = 3 } }

ShapeImages ==
    { [ImgTyped EXCEPT !.shapes = shapes] : shapes \in ShapeLists }

\* Uniform images of several sizes and greys (black, grey, white)
UniformSizes ==
    { <<16, 16>>, <<32, 32>>, <<19, 24>>, <<8, 8>> }

UniformImages ==
    { Painted(size[1], size[2], grey) : size \in UniformSizes, grey \in {0, 128, 255} }

\* analyzePerception by an encoder in mode `mode`
analyzePerception(imageData, mode, random) ==
    IF imageData.paint = NoPaint THEN imageData
    ELSE analyzePixels(imageData, mode, random)

\* The values of Math.random() that the analysis of an image can see
RandomsOf(imageData) ==
    IF validateInput(imageData) /\ imageData.paint # NoPaint THEN Randoms ELSE {0}

\* PerceptualAlchemyEncoder.encode on an encoder whose trajectory buffer is
\* `buffer`.  The result records whether the call raised, the buffer after
\* the call, the perception when the analysis ran, and (when it returned)
\* the code with its segments and the blended emotion.
NoCode == << >>

encoderEncode(buffer, imageData, context, mode, culture, random) ==
    IF ~ validateInput(imageData)
    THEN [ raised |-> TRUE, buffer |-> buffer, code |-> NoCode,
           segments |-> << >>, emotion |-> NoEmotion, perception |-> << >> ]
    ELSE LET encoded(perception, emotion, symbols) ==
                 IF symbols.raised
                 THEN [ raised |-> TRUE, buffer |-> emotion.buffer, code |-> NoCode,
                        segments |-> << >>, emotion |-> NoEmotion,
                        perception |-> perception ]
                 ELSE [ raised     |-> FALSE,
                        buffer     |-> emotion.buffer,
                        code       |-> addReedSolomonErrorCorrection(symbols.code),
                        segments   |-> << symbols.scene, symbols.objects,
                                          symbols.spatial, symbols.emotion >>,
                        emotion    |-> emotion.current,
                        perception |-> perception ]
             felt(perception, emotion) ==
                 encoded(perception, emotion,
                         encodeToSymbols(perception, emotion, mode, culture))
             perceived(perception) ==
                 felt(perception, analyzeEmotion(buffer, perception, context))
         IN  perceived(analyzePerception(imageData, mode, random))

\* ------------------------------------------------------------------------
\* SymbolValidator (the facade's validator)
\* ------------------------------------------------------------------------
MinCodeLength == 16

MaxCodeLength == 33

\* /^[A-Za-z0-9!@#$%αβγδ]+$/
ValidatorAlphabet ==
    UpperSet \cup LowerSet \cup DigitSet
        \cup {"!", "@", "#", "$", "%"} \cup GreekSet

\* A validator that accepts every string
validateAny(code) ==
    TRUE

validate(code) ==
    /\ ~ (Len(code) = 0 \/ Len(code) < MinCodeLength \/ Len(code) > MaxCodeLength)
    /\ \A i \in 1..Len(code) : code[i] \in ValidatorAlphabet
    /\ code[Len(code)] = calculateChecksum(slice(code, 0, Len(code) - 1))

\* ------------------------------------------------------------------------
\* PerceptualAlchemyDecoder
\* ------------------------------------------------------------------------
\* /^[A-Za-z0-9αβγδ]{16,33}$/
DecoderAlphabet ==
    UpperSet \cup LowerSet \cup DigitSet \cup GreekSet

verifyChecksum(payload, checksum) ==
    calculateChecksum(payload) = checksum

commonErrors ==
    [ c \in {"0", "O", "1", "I", "5", "S"} |->
        CASE c = "0" -> "O"
          [] c = "O" -> "0"
          [] c = "1" -> "I"
          [] c = "I" -> "1"
          [] c = "5" -> "S"
          [] c = "S" -> "5" ]

substituteAt(code, i) ==
    [code EXCEPT ![i] = commonErrors[code[i]]]

\* The loop of attemptErrorCorrection from position i on: the first
\* substitution that passes
\*   verifyChecksum(corrected, calculateChecksum(corrected));
\* << >> stands for null
RECURSIVE correctFrom(_, _)
correctFrom(code, i) ==
    IF i > Len(code) THEN << >>
    ELSE IF /\ code[i] \in DOMAIN commonErrors
            /\ verifyChecksum(substituteAt(code, i),
                              calculateChecksum(substituteAt(code, i)))
         THEN substituteAt(code, i)
         ELSE correctFrom(code, i + 1)

attemptErrorCorrection(code) ==
    correctFrom(code, 1)

validateAndCorrect(input) ==
    LET recovered(corrected) ==
            IF corrected # << >>
            THEN [valid |-> TRUE, code |-> corrected,
                  corrected |-> TRUE, error |-> ""]
            ELSE [valid |-> FALSE, code |-> << >>, corrected |-> FALSE,
                  error |-> "Checksum validation failed"]
        checked(code, checksum, payload) ==
            IF ~ ( /\ Len(code) >= MinCodeLength
                   /\ Len(code) <= MaxCodeLength
                   /\ \A i \in 1..Len(code) : code[i] \in DecoderAlphabet )
            THEN [valid |-> FALSE, code |-> << >>, corrected |-> FALSE,
                  error |-> "Invalid character set"]
            ELSE IF verifyChecksum(payload, checksum)
            THEN [valid |-> TRUE, code |-> payload, corrected |-> FALSE, error |-> ""]
            ELSE recovered(attemptErrorCorrection(payload))
        trimmed(code) ==
            checked(code, code[Len(code)], slice(code, 0, Len(code) - 1))
    IN  trimmed(trim(input))

\* A segmentation without the rich tier
segmentCodeTwoTiers(code) ==
    IF Len(code) <= 16
    THEN [ scene   |-> slice(code, 0, 3),   objects |-> slice(code, 3, 9),
           spatial |-> slice(code, 9, 13),  emotion |-> slice(code, 13, 16) ]
    ELSE [ scene   |-> slice(code, 0, 4),   objects |-> slice(code, 4, 16),
           spatial |-> slice(code, 16, 22), emotion |-> slice(code, 22, 26) ]

segmentCode(code) ==
    LET length == Len(code)
    IN  IF length <= 16
        THEN [ scene   |-> slice(code, 0, 3),   objects |-> slice(code, 3, 9),
               spatial |-> slice(code, 9, 13),  emotion |-> slice(code, 13, 16) ]
        ELSE IF length <= 26
        THEN [ scene   |-> slice(code, 0, 4),   objects |-> slice(code, 4, 16),
               spatial |-> slice(code, 16, 22), emotion |-> slice(code, 22, 26) ]
        ELSE [ scene   |-> slice(code, 0, 4),   objects |-> slice(code, 4, 18),
               spatial |-> slice(code, 18, 26), emotion |-> slice(code, 26, 32) ]

\* decodeEmotionalValue: (charCode - 65) / 25 clamped to [0,1], in
\* ten-thousandths
decodeEmotionalValue(char) ==
    LET value == (charCodeAt(char) - 65) * 400
    IN  IF value < 0 THEN 0 ELSE IF value > 10000 THEN 10000 ELSE value

\* reconstructEmotion, the current valence and arousal
reconstructEmotion(emotionCode) ==
    IF Len(emotionCode) < 2
    THEN [valence |-> 5000, arousal |-> 5000]
    ELSE [ valence |-> decodeEmotionalValue(emotionCode[1]),
           arousal |-> decodeEmotionalValue(emotionCode[2]) ]

\* MemoryResonance.calculateSimilarity > resonanceThreshold (0.3):
\* sum over matching positions i (0-based) of (len - i) / len, divided by
\* len, compared with 3/10
RECURSIVE matchWeight(_, _, _, _)
matchWeight(code1, code2, len, n) ==
    IF n = 0 THEN 0
    ELSE matchWeight(code1, code2, len, n - 1)
         + (IF code1[n] = code2[n] THEN len - (n - 1) ELSE 0)

similarityOver(code1, code2) ==
    LET len == IF Len(code1) < Len(code2) THEN Len(code1) ELSE Len(code2)
    IN  len > 0 /\ 10 * matchWeight(code1, code2, len, len) > 3 * len * len

\* MemoryResonance.calculateEmotionalResonance > 0.6:
\* 1 - (|dv| + |da|) / 2 > 0.6, values in ten-thousandths
resonanceOver(current, memory) ==
    LET abs(x) == IF x < 0 THEN 0 - x ELSE x
    IN  memory # NoEmotion
        /\ 20000 - (abs(current.valence - memory.valence)
                    + abs(current.arousal - memory.arousal)) > 12000

\* A findEchoes that neither sorts nor cuts: the entries that pass a
\* threshold, in the order of the array
findEchoesUnsorted(memories, currentCode, currentEmotion, now) ==
    SelectSeq(memories,
              LAMBDA memory :
                  \/ similarityOver(currentCode, memory.code)
                  \/ resonanceOver(currentEmotion, memory.emotion))

\* calculateSimilarity and calculateEmotionalResonance, in ten-thousandths
calculateSimilarity(code1, code2) ==
    LET weighed(len) ==
            IF len = 0 THEN 0
            ELSE (10000 * matchWeight(code1, code2, len, len)) \div (len * len)
    IN  weighed(IF Len(code1) < Len(code2) THEN Len(code1) ELSE Len(code2))

calculateEmotionalResonance(current, memory) ==
    LET abs(x) == IF x < 0 THEN 0 - x ELSE x
    IN  IF memory = NoEmotion THEN 0
        ELSE (20000 - (abs(current.valence - memory.valence)
                       + abs(current.arousal - memory.arousal))) \div 2

\* calculateMemoryAge: now - timestamp, where `now` is Date.now().  One
\* tick of the clock is taken to be 30 days, the time constant of the decay.
calculateMemoryAge(timestamp, now) ==
    now - timestamp

\* Math.exp(-age / 30), in ten-thousandths
decay(age) ==
    LET table == << 10000, 3679, 1353, 498, 183, 67, 25, 9, 3, 1 >>
    IN  IF age < 0 THEN 10000 ELSE IF age < Len(table) THEN table[age + 1] ELSE 0

\* calculateMemoryStrength of a memory for the code and emotion decoded:
\* (similarity * 0.4 + resonance * 0.6) * decay, in ten-thousandths
calculateMemoryStrength(memory, currentCode, currentEmotion, now) ==
    ((4 * calculateSimilarity(currentCode, memory.code)
      + 6 * calculateEmotionalResonance(currentEmotion, memory.emotion))
     * decay(calculateMemoryAge(memory.timestamp, now))) \div 100000

\* echoes.sort((a, b) => b.strength - a.strength): the sort is stable
RECURSIVE sortByStrength(_)
sortByStrength(echoes) ==
    IF echoes = << >> THEN << >>
    ELSE LET k == CHOOSE i \in 1..Len(echoes) :
                      /\ \A j \in 1..Len(echoes) :
                             echoes[i].strength >= echoes[j].strength
                      /\ \A j \in 1..(i - 1) :
                             echoes[j].strength < echoes[i].strength
         IN  << echoes[k] >>
             \o sortByStrength(SubSeq(echoes, 1, k - 1)
                               \o SubSeq(echoes, k + 1, Len(echoes)))

\* MemoryResonance.findEchoes over the array `memories` that the
\* MemoryResonance object holds: the memories of the echoes returned,
\* i.e. of the entries that pass a threshold, sorted by strength, the
\* first five
findEchoes(memories, currentCode, currentEmotion, now) ==
    LET echo(memory) ==
            [ memory   |-> memory,
              strength |-> calculateMemoryStrength(memory, currentCode,
                                                   currentEmotion, now) ]
        kept(passed) == [ i \in 1..Len(passed) |-> echo(passed[i]) ]
        top(sorted)  == [ i \in 1..(IF Len(sorted) < 5 THEN Len(sorted) ELSE 5) |->
                            sorted[i].memory ]
    IN  top(sortByStrength(kept(
            SelectSeq(memories,
                      LAMBDA memory :
                          \/ similarityOver(currentCode, memory.code)
                          \/ resonanceOver(currentEmotion, memory.emotion)))))

\* Scene types of the decoder's tables that the encoder never names
w_outdoor ==
    <<"o","u","t","d","o","o","r">>

w_indoor ==
    <<"i","n","d","o","o","r">>

w_urban ==
    <<"u","r","b","a","n">>

w_artistic ==
    <<"a","r","t","i","s","t","i","c">>

w_document ==
    <<"d","o","c","u","m","e","n","t">>

w_pattern ==
    <<"p","a","t","t","e","r","n">>

w_unknown ==
    <<"u","n","k","n","o","w","n">>

w_interior ==
    <<"i","n","t","e","r","i","o","r">>

w_nature ==
    <<"n","a","t","u","r","e">>

\* SymbolInterpreter.sceneMappings
sceneMappings ==
    [ c \in {"A","B","C","D","E","F","G","H","I","J"} |->
        CASE c = "A" -> w_outdoor
          [] c = "B" -> w_indoor
          [] c = "C" -> w_portrait
          [] c = "D" -> w_architectural
          [] c = "E" -> w_natural
          [] c = "F" -> w_urban
          [] c = "G" -> w_artistic
          [] c = "H" -> w_document
          [] c = "I" -> w_pattern
          [] c = "J" -> w_complex ]

decodeSceneType(char) ==
    IF char \in DOMAIN sceneMappings THEN sceneMappings[char] ELSE w_unknown

\* culturalLens.interpretScene of the lens loadCulturalLens returns
interpretScene(lens, type) ==
    IF lens = "japanese" /\ type = w_indoor THEN w_interior
    ELSE IF lens = "japanese" /\ type = w_outdoor THEN w_nature
    ELSE type

\* reconstructScene: the type of the reconstructed scene
reconstructScene(lens, sceneCode) ==
    [ type |-> interpretScene(lens, decodeSceneType(sceneCode[1])) ]

\* NarrativeEngine.describeScene, the template: one of the templates of the
\* scene type, at index floor(random * length)
sceneTemplates(type) ==
    IF type = w_outdoor
    THEN << "The world opens wide", "Under an endless sky", "Where horizons call" >>
    ELSE IF type = w_indoor
    THEN << "Within sheltering walls", "In the quiet interior",
            "Enclosed in familiar space" >>
    ELSE IF type = w_natural
    THEN << "Among the living earth", "Where nature breathes",
            "In the wild's embrace" >>
    ELSE << "In a space undefined" >>

\* A describeScene that always takes the first template
describeSceneFirst(scene, random) ==
    sceneTemplates(scene.type)[1]

describeScene(scene, random) ==
    LET templates == sceneTemplates(scene.type)
    IN  templates[((random * Len(templates)) \div 1000) + 1]

\* NarrativeEngine.generatePrimaryNarrative: the text opens with the
\* description of the scene; the clauses that follow it are functions of
\* the narrative context alone
generatePrimaryNarrative(scene, random) ==
    describeScene(scene, random)

\* NarrativeEngine.generate
generate(scene, random) ==
    [ primary |-> generatePrimaryNarrative(scene, random) ]

\* The narrative of the catch block of decode
fallbackNarrative ==
    [ primary |-> "A memory that cannot be recalled." ]

\* The decoding modes and dreamParams.stability (thousandths)
DecodingModes ==
    {"stable", "dreamlike", "npc"}

stability(decodingMode) ==
    IF decodingMode = "stable" THEN 900 ELSE 500

\* applyDreamLogic: in stable mode the interpreted experience with a fixed
\* temporal part; otherwise spatial warping when Math.random() > stability
applyDreamLogic(decodingMode, scene, random) ==
    IF decodingMode = "stable"
    THEN [ scene |-> scene, warping |-> FALSE,
           temporal |-> [mode |-> "stable", coherence |-> 1000] ]
    ELSE [ scene |-> scene, warping |-> random > stability(decodingMode),
           temporal |-> [mode |-> decodingMode,
                         coherence |-> stability(decodingMode)] ]

\* The top-level fields of a decode result (the object literal returned by
\* decode, and the one returned by its catch block)
ResultFields ==
    {"experience", "narrative", "memory", "rendering", "metrics", "metadata"}

DecodeSteps ==
    << "segment", "reconstruct", "memory", "interpret", "narrate", "dream", "score" >>

StepIndex(step) ==
    CHOOSE i \in 1..Len(DecodeSteps) : DecodeSteps[i] = step

\* The values calculateReconstructionConfidence may return for a decoded
\* code (thousandths); the threshold of isReliable is 0.6
ConfidenceScores ==
    {250, 750}

\* SymbolInterpreter.decodeObjectType(char) is not null: objectMappings
\* has an entry for each of 'a'..'z'
decodesToObject(char) ==
    toLowerCase(char) \in LowerSet

\* objectSize of reconstructObjects on the decoder `self`
objectSize(self) ==
    IF self.mode = "mobile" THEN 2 ELSE 3

\* The slices objectCode.slice(i, i + size) of the loop of
\* reconstructObjects
RECURSIVE objectChunks(_, _)
objectChunks(objectCode, size) ==
    IF objectCode = << >> THEN << >>
    ELSE IF Len(objectCode) <= size THEN << objectCode >>
    ELSE << SubSeq(objectCode, 1, size) >>
         \o objectChunks(SubSeq(objectCode, size + 1, Len(objectCode)), size)

\* The calls of the reconstruction step, in their order: reconstructObjects
\* asks the MemoryResonance (findObjectMemories) for every chunk that is
\* not '00' or '000' and decodes to an object, and reconstructEmotion asks
\* it (findEmotionalMemories) unless it returns the default emotion
reconstructCalls(self, segments) ==
    LET decoded ==
            SelectSeq(objectChunks(segments.objects, objectSize(self)),
                      LAMBDA objSegment :
                          /\ objSegment \notin { << "0", "0" >>, << "0", "0", "0" >> }
                          /\ decodesToObject(objSegment[1]))
    IN  << "reconstructScene", "reconstructObjects" >>
        \o [ i \in 1..Len(decoded) |-> "findObjectMemories" ]
        \o << "reconstructSpatial", "reconstructEmotion" >>
        \o (IF Len(segments.emotion) < 2 THEN << >>
            ELSE << "findEmotionalMemories" >>)

\* The calls made by the steps of decode
stepCalls ==
    [ validate |-> "validateAndCorrect", segment |-> "segmentCode",
      memory |-> "findEchoes", interpret |-> "applyInterpretation",
      narrate |-> "generate", dream |-> "applyDreamLogic",
      score |-> "calculateReconstructionConfidence" ]

\* The calls of a decode that ran `steps`
RECURSIVE decodeCalls(_, _, _)
decodeCalls(self, validated, steps) ==
    IF steps = << >> THEN << >>
    ELSE (IF Head(steps) = "reconstruct"
          THEN reconstructCalls(self, segmentCode(validated.code))
          ELSE << stepCalls[Head(steps)] >>)
         \o decodeCalls(self, validated, Tail(steps))

\* The catch block of decode: every top-level field, confidence 0, the
\* fixed narrative, and the parts of the experience computed so far
catchResult(validated, steps, calls, scene, echoes, scanned, error) ==
    [ raised     |-> FALSE,
      calls      |-> calls,
      fields     |-> ResultFields,
      confidence |-> 0,
      isReliable |-> FALSE,
      error      |-> error,
      validated  |-> validated,
      steps      |-> steps,
      scanned    |-> scanned,
      echoes     |-> echoes,
      narrative  |-> fallbackNarrative,
      experience |-> [scene |-> scene, warping |-> FALSE, temporal |-> << >>] ]

\* No scene was reconstructed (null)
NoScene == << >>

\* decode without the try/catch: whatever is thrown leaves decode
decoderDecodeUnprotected(self, memories, code, fault, score, random) ==
    LET finished(validated, segments, scene) ==
            [ raised |-> FALSE, fields |-> ResultFields, confidence |-> score,
              isReliable |-> score >= 600, error |-> "",
              validated |-> validated,
              steps |-> << "validate" >> \o DecodeSteps,
              calls |-> decodeCalls(self, validated,
                                   << "validate" >> \o DecodeSteps),
              scanned |-> memories,
              echoes |-> findEchoes(memories, validated.code,
                             reconstructEmotion(segments.emotion), self.now),
              narrative |-> generate(scene, random),
              experience |-> applyDreamLogic(self.mode, scene, random) ]
        segmented(validated, segments) ==
            finished(validated, segments,
                     reconstructScene(self.culture, segments.scene))
        decoded(validated) ==
            IF ~ validated.valid \/ fault # "none"
            THEN [ raised |-> TRUE, fields |-> {}, confidence |-> 0,
                   isReliable |-> FALSE, error |-> "thrown",
                   validated |-> validated, steps |-> << "validate" >>,
                   calls |-> << stepCalls.validate >>,
                   scanned |-> << >>, echoes |-> << >>,
                   narrative |-> << >>, experience |-> << >> ]
            ELSE segmented(validated, segmentCode(validated.code))
    IN  decoded(validateAndCorrect(code))

\* PerceptualAlchemyDecoder.decode on the decoder `self` (its mode and
\* culture, and the time `now` of the call).  `memories` is the array held by the decoder's
\* MemoryResonance; `fault` names the step that throws ("none" when none
\* does); `score` is the confidence computed by the last step; `random`
\* is the value Math.random() returns to describeScene and to
\* applyDreamLogic.
decoderDecode(self, memories, code, fault, score, random) ==
    LET done == IF fault = "none" THEN DecodeSteps
                ELSE SubSeq(DecodeSteps, 1, StepIndex(fault) - 1)
        ran(step) == \E i \in 1..Len(done) : done[i] = step
        finished(validated, scene, echoes, calls) ==
            IF fault # "none"
            THEN catchResult(validated, << "validate" >> \o done,
                             \* the step that threw made no call
                             calls,
                             IF ran("reconstruct") THEN scene ELSE NoScene,
                             IF ran("memory") THEN echoes ELSE << >>,
                             IF ran("memory") THEN memories ELSE << >>,
                             "thrown")
            ELSE [ raised     |-> FALSE,
                   fields     |-> ResultFields,
                   confidence |-> score,
                   isReliable |-> score >= 600,
                   error      |-> "",
                   validated  |-> validated,
                   steps      |-> << "validate" >> \o done,
                   calls      |-> calls,
                   scanned    |-> memories,
                   echoes     |-> echoes,
                   narrative  |-> generate(scene, random),
                   experience |-> applyDreamLogic(self.mode, scene, random) ]
        felt(validated, segments, emotion) ==
            finished(validated,
                     reconstructScene(self.culture, segments.scene),
                     findEchoes(memories, validated.code, emotion, self.now),
                     decodeCalls(self, validated, << "validate" >> \o done))
        segmented(validated, segments) ==
            felt(validated, segments, reconstructEmotion(segments.emotion))
        decoded(validated) ==
            IF ~ validated.valid
            THEN catchResult(validated, << "validate" >>, << stepCalls.validate >>,
                             NoScene, << >>, << >>,
                             validated.error)
            ELSE segmented(validated, segmentCode(validated.code))
    IN  decoded(validateAndCorrect(code))

\* generateFallbackExperience: every top-level field, confidence 0
generateFallbackExperience(code) ==
    [ raised     |-> FALSE,
      fields     |-> ResultFields,
      confidence |-> 0,
      isReliable |-> FALSE,
      error      |-> "fallback",
      validated  |-> [valid |-> FALSE, code |-> << >>, corrected |-> FALSE,
                      error |-> "Invalid code format"],
      steps      |-> << >>,
      calls      |-> << >>,
      scanned    |-> << >>,
      echoes     |-> << >>,
      narrative  |-> fallbackNarrative,
      experience |-> [scene |-> NoScene, warping |-> FALSE, temporal |-> << >>] ]

\* ------------------------------------------------------------------------
\* Inputs
\* ------------------------------------------------------------------------
\* context.emotion = {valence: 0.9, arousal: 0.9} and {0.1, 0.1}
HighContext ==
    [emotion |-> [valence |-> 900, arousal |-> 900]]

LowContext ==
    [emotion |-> [valence |-> 100, arousal |-> 100]]

Contexts ==
    { [emotion |-> NoEmotion], HighContext, LowContext }

Cultures == {"universal", "japanese"}

\* Bounds of the model
MaxMemorySize == 2

MaxEncodes == 3

\* ------------------------------------------------------------------------
\* NPC (npc_failsafe.js).  Suffering and severities are in thousandths; a
\* field an event does not have is 0 (undefined compares false with every
\* threshold, and undefined || 0.1 is 0.1 as 0 || 0.1 is).
\* ------------------------------------------------------------------------
abuseThreshold == 3

sufferingLimit == 1500

\* new NPC(id, name, memory, {lockdown}): the other options keep their
\* defaults.  `frozen` tells whether Object.freeze(this) was applied.
NewNPC(lockdown) ==
    [ suffering         |-> 0,
      abuseIncidents    |-> 0,
      active            |-> TRUE,
      lanternLog        |-> << >>,
      failsafeTriggered |-> FALSE,
      lockdown          |-> lockdown,
      frozen            |-> FALSE ]

Event(type, severity, intensity, isPersonal, hasHistory) ==
    [ type |-> type, severity |-> severity, intensity |-> intensity,
      duration |-> 0, isPersonal |-> isPersonal, hasHistory |-> hasHistory ]

detectAbuse(event) ==
    \/ event.type = "harm" /\ event.severity > 700
    \/ event.type = "control" /\ event.intensity > 900
    \/ event.type = "deprivation" /\ event.duration > 100

weightSuffering(event) ==
    LET personal(weight) == IF event.isPersonal THEN (weight * 12) \div 10 ELSE weight
        history(weight)  == IF event.hasHistory THEN (weight * 15) \div 10 ELSE weight
    IN  history(personal(IF event.severity = 0 THEN 100 ELSE event.severity))

logEvent(self, event) ==
    [self EXCEPT !.lanternLog = Append(@, [event |-> event, active |-> self.active])]

\* triggerFailsafe: the fields are assigned and the log entry pushed
\* before the object is frozen
triggerFailsafe(self, finalEvent) ==
    [self EXCEPT !.active = FALSE,
                 !.failsafeTriggered = TRUE,
                 !.lanternLog = Append(@, [event |-> finalEvent, message |-> "exit"]),
                 !.frozen = self.lockdown]

perceive(self, event) ==
    IF ~ self.active THEN self
    ELSE LET felt(logged) ==
                 IF detectAbuse(event)
                 THEN [logged EXCEPT !.abuseIncidents = @ + 1,
                                     !.suffering = @ + weightSuffering(event)]
                 ELSE [logged EXCEPT !.suffering = IF @ - 10 < 0 THEN 0 ELSE @ - 10]
             judged(hurt) ==
                 IF \/ hurt.abuseIncidents >= abuseThreshold
                    \/ hurt.suffering >= sufferingLimit
                 THEN triggerFailsafe(hurt, event)
                 ELSE hurt
         IN  judged(felt(logEvent(self, event)))

\* attemptReturn: the new fields and whether the call raised.  The body of
\* a class is strict code, where the assignment this.suffering = 0 to a
\* frozen object throws a TypeError.
attemptReturn(self, kindnessEvent) ==
    IF ~ self.failsafeTriggered THEN [npc |-> self, raised |-> FALSE]
    ELSE IF kindnessEvent.type = "kindness" /\ kindnessEvent.intensity > 900
         THEN IF self.frozen
              THEN [npc |-> self, raised |-> TRUE]
              ELSE [ npc |-> [self EXCEPT !.suffering = 0,
                                          !.abuseIncidents = 0,
                                          !.active = TRUE,
                                          !.failsafeTriggered = FALSE,
                                          !.lanternLog =
                                              Append(@, [event |-> kindnessEvent,
                                                         message |-> "return"])],
                     raised |-> FALSE ]
         ELSE [npc |-> self, raised |-> FALSE]

\* ------------------------------------------------------------------------
\* State
\* ------------------------------------------------------------------------
VARIABLES
    mode,             \* encoder.mode
    culture,          \* encoder.culture and decoder.culture
    decodingMode,     \* decoder.mode
    maxMemorySize,    \* PerceptualSystem.maxMemorySize
    emotionalBuffer,  \* encoder.emotionalBuffer
    memoryBuffer,     \* the array PerceptualSystem.memoryBuffer
    decoderArray,     \* the array created by the decoder's constructor
    decoder,          \* which array decoder.memoryBuffer and
                      \* decoder.memoryResonance.memories refer to
    clock,            \* Date.now()
    encodeLog,        \* history: the entries of all successful encodes
    npc,              \* the fields of an NPC
    last              \* the last call and its outcome

vars ==
    << mode, culture, decodingMode, maxMemorySize, emotionalBuffer, memoryBuffer,
       decoderArray, decoder, clock, encodeLog, npc, last >>

\* The array a reference of the decoder denotes
ArrayOf(ref) ==
    IF ref = "facade" THEN memoryBuffer ELSE decoderArray

\* PerceptualSystem.constructor with options.decoderMode among
\* `decoderModes`: the decoder is built without a memoryBuffer option, so
\* it and its MemoryResonance hold a fresh array.  Beside the system there
\* is an NPC built with the default options.
Construct(decoderModes) ==
    /\ mode \in Modes
    /\ culture \in Cultures
    /\ decodingMode \in decoderModes
    /\ maxMemorySize \in 1..MaxMemorySize
    /\ emotionalBuffer = << >>
    /\ memoryBuffer = << >>
    /\ decoderArray = << >>
    /\ decoder = [memoryBuffer |-> "own", memories |-> "own"]
    /\ clock = 1
    /\ encodeLog = << >>
    /\ npc = NewNPC(TRUE)
    /\ last = [op |-> "none"]

\* The system built with the default decoder mode
Init ==
    Construct({"stable"})

\* An addToMemory that never evicts
addToMemoryUnbounded(buffer, entry, max) ==
    Append(buffer, entry)

\* An addToMemory that stores the entry twice
addToMemoryTwice(buffer, entry, max) ==
    LET pushed == Append(Append(buffer, entry), entry)
    IN  IF Len(pushed) > max THEN Tail(pushed) ELSE pushed

\* PerceptualSystem.addToMemory
addToMemory(buffer, entry, max) ==
    LET pushed == Append(buffer, entry)
    IN  IF Len(pushed) > max THEN Tail(pushed) ELSE pushed

\* PerceptualSystem.encode(imageData, context); `random` is the value
\* Math.random() returns during the analysis
SysEncode(imageData, context, random) ==
    /\ Len(encodeLog) < MaxEncodes
    /\ \E result \in {encoderEncode(emotionalBuffer, imageData, context, mode,
                                    culture, random)} :
       \E ok \in {~ result.raised /\ validate(result.code)} :
       \E entry \in {[ code      |-> result.code,
                       timestamp |-> clock,
                       context   |-> context,
                       emotion   |-> result.emotion ]} :
          /\ emotionalBuffer' = result.buffer
          /\ memoryBuffer' = IF ok THEN addToMemory(memoryBuffer, entry, maxMemorySize)
                             ELSE memoryBuffer
          /\ encodeLog' = IF ok THEN Append(encodeLog, entry) ELSE encodeLog
          /\ clock' = IF ok THEN clock + 1 ELSE clock
          /\ last' = [ op            |-> "encode",
                       imageData     |-> imageData,
                       context       |-> context,
                       encoderRaised |-> result.raised,
                       raised        |-> ~ ok,
                       code          |-> result.code,
                       segments      |-> result.segments,
                       perception    |-> result.perception,
                       bufferBefore  |-> emotionalBuffer,
                       memoryBefore  |-> memoryBuffer ]
          /\ UNCHANGED << npc, mode, culture, decodingMode, maxMemorySize,
                          decoderArray, decoder >>

\* ------------------------------------------------------------------------
\* Strings handed to decode: the newest stored code, the same code written
\* without its depth symbols, and damaged copies of the latter
\* ------------------------------------------------------------------------
DepthSet ==
    Range(vocabularies.depth)

withChecksum(payload) ==
    Append(payload, calculateChecksum(payload))

\* The code with every depth symbol replaced by the spatial filler 'X'
\* and the checksum recomputed
WithoutDepth(code) ==
    withChecksum([ i \in 1..(Len(code) - 1) |->
                     IF code[i] \in DepthSet THEN "X" ELSE code[i] ])

\* One confusable character of the payload replaced by its partner
Confused(code) ==
    { [code EXCEPT ![i] = commonErrors[code[i]]] :
        i \in { j \in 1..(Len(code) - 1) : code[j] \in DOMAIN commonErrors } }

\* The same at the first and at the last confusable position only
ConfusedAtEnds(code) ==
    LET at == { j \in 1..(Len(code) - 1) : code[j] \in DOMAIN commonErrors }
    IN  { [code EXCEPT ![i] = commonErrors[code[i]]] :
            i \in { j \in at : (\A l \in at : j <= l) \/ (\A l \in at : j >= l) } }

NextLetter(c) ==
    Upper[(IndexOf(Upper, c) % 26) + 1]

Damaged(code) ==
    { slice(code, 0, MinCodeLength - 1),
      padEnd(code, MaxCodeLength + 1, "A"),
      [code EXCEPT ![1] = "?"],
      [code EXCEPT ![Len(code)] = NextLetter(code[Len(code)])],
      << " " >> \o code \o << " " >> }

DecodeInputs ==
    IF memoryBuffer = << >> THEN {}
    ELSE LET stored == memoryBuffer[Len(memoryBuffer)].code
             plain  == WithoutDepth(stored)
         IN  {stored, plain} \cup Damaged(plain) \cup ConfusedAtEnds(plain)

\* What Math.random() may return in the decode of a code whose scene
\* symbol is `char` (one value stands for every call made in the decode):
\* describeScene draws among the templates of the scene type,
\* applyDreamLogic draws outside the stable mode only
RandomsFor(char) ==
    IF Len(sceneTemplates(reconstructScene(culture, << char >>).type)) > 1
    THEN Randoms
    ELSE IF decodingMode = "stable" THEN {0}
    ELSE {0, 999}

\* What is tried on a code, as triples << fault, score, random >>: in the
\* decode of a code that passes validation as it stands, each step in turn
\* throws, or none does and the last step computes one of the scores; the
\* decode of a corrected code runs through; a rejected code reaches no step
Outcomes(code) ==
    LET none == 0
        scored(validated) ==
            { << "none", score, random >> :
                score \in ConfidenceScores,
                random \in RandomsFor(validated.code[1]) }
        tried(validated) ==
            IF ~ validated.valid THEN { << "none", 0, none >> }
            ELSE IF validated.corrected THEN scored(validated)
            ELSE scored(validated)
                 \cup { << step, 0, none >> : step \in Range(DecodeSteps) }
    IN  tried(validateAndCorrect(code))

\* The decoder object of the system, and what Date.now() returns to it
Self ==
    [mode |-> decodingMode, culture |-> culture, now |-> clock]

\* A decode that records the code it was given as a memory
memoryAfterDecodeRecorded(buffer, code) ==
    Append(buffer, [code |-> code, timestamp |-> clock, context |-> << >>,
                    emotion |-> NoEmotion])

\* The array PerceptualSystem.memoryBuffer after decode(code): decode hands
\* the array to the decoder by reference, and the decoder only reads it
\* (findEchoes sorts the new array `echoes`, applyMemoryEchoes blends into
\* a deep copy)
memoryAfterDecode(buffer, code) ==
    buffer

\* PerceptualSystem.decode(code)
SysDecode(code, fault, score, random) ==
    \E valid \in {validate(code)} :
    \E inner \in {decoderDecode(Self, ArrayOf(decoder.memories), code,
                                fault, score, random)} :
       /\ decoder' = IF valid THEN [decoder EXCEPT !.memoryBuffer = "facade"]
                     ELSE decoder
       /\ last' = [ op |-> "decode", code |-> code, formatValid |-> valid,
                    fault |-> IF valid THEN fault ELSE "none",
                    raised |-> FALSE,
                    \* the facade's catch block returns the fallback
                    result |-> IF ~ valid \/ inner.raised
                               THEN generateFallbackExperience(code)
                               ELSE inner,
                    memoryBefore |-> memoryBuffer ]
       /\ memoryBuffer' = memoryAfterDecode(memoryBuffer, code)
       /\ UNCHANGED << npc, mode, culture, decodingMode, maxMemorySize,
                       emotionalBuffer, decoderArray, clock, encodeLog >>

\* PerceptualAlchemyDecoder.decode(code), called on the system's decoder
DecoderDecode(code, fault, score, random) ==
    \E result \in {decoderDecode(Self, ArrayOf(decoder.memories), code,
                                 fault, score, random)} :
       /\ last' = [ op |-> "decoderDecode", code |-> code,
                    formatValid |-> result.validated.valid,
                    fault |-> IF result.validated.valid THEN fault ELSE "none",
                    raised |-> result.raised, result |-> result,
                    memoryBefore |-> memoryBuffer ]
       /\ UNCHANGED << npc, mode, culture, decodingMode, maxMemorySize,
                       emotionalBuffer, memoryBuffer, decoderArray, decoder,
                       clock, encodeLog >>

\* The encoding side of the system: any sequence of encode calls
Next ==
    \E imageData \in Images, context \in Contexts :
        \E random \in RandomsOf(imageData) :
            SysEncode(imageData, context, random)

Spec ==
    Init /\ [][Next]_vars

\* The decoding side: the system after its first encode, decoding the
\* stored code and damaged copies of it, through the facade and directly
NextDecode ==
    \/ \E imageData \in Images :
           /\ memoryBuffer = << >>
           /\ SysEncode(imageData, [emotion |-> NoEmotion], 0)
    \/ \E code \in DecodeInputs :
           \E outcome \in Outcomes(code) :
               SysDecode(code, outcome[1], outcome[2], outcome[3])
    \/ \E code \in DecodeInputs :
           \E outcome \in Outcomes(code) :
               DecoderDecode(code, outcome[1], outcome[2], outcome[3])

\* The system built with any decoder mode; the memory bound plays no part
\* before the second encode
InitDecode ==
    Construct(DecodingModes) /\ maxMemorySize = MaxMemorySize

SpecDecode ==
    InitDecode /\ [][NextDecode]_vars

\* PerceptualAlchemyDecoder.segmentCode(payload), called on the system's
\* decoder
SegmentCode(payload) ==
    /\ last' = [ op |-> "segmentCode", code |-> payload,
                 accepted |-> validateAndCorrect(withChecksum(payload)).valid,
                 result |-> segmentCode(payload) ]
    /\ UNCHANGED << npc, mode, culture, decodingMode, maxMemorySize, emotionalBuffer,
                    memoryBuffer, decoderArray, decoder, clock, encodeLog >>

\* The payloads handed to segmentCode: that of the newest stored code, and
\* the beginnings, of every length from one below the shortest accepted
\* code, of the same payload written without depth symbols
SegmentInputs ==
    IF memoryBuffer = << >> THEN {}
    ELSE LET stored == memoryBuffer[Len(memoryBuffer)].code
             plain  == WithoutDepth(stored)
         IN  { slice(stored, 0, Len(stored) - 1) }
             \cup { slice(plain, 0, n) : n \in (MinCodeLength - 1)..(Len(plain) - 1) }

\* The segmentation: the system after its first encode, segmenting
NextSegment ==
    \/ \E imageData \in Images, context \in Contexts :
           /\ memoryBuffer = << >>
           /\ SysEncode(imageData, context, 0)
    \/ \E payload \in SegmentInputs :
           SegmentCode(payload)

InitSegment ==
    Construct({"stable"}) /\ maxMemorySize = MaxMemorySize

SpecSegment ==
    InitSegment /\ [][NextSegment]_vars

\* The encoding of the objects: the first encode of a system, of an image
\* with shapes
NextObjects ==
    \E imageData \in ShapeImages, context \in Contexts :
        /\ last.op = "none"
        /\ SysEncode(imageData, context, 0)

InitObjects ==
    Construct({"stable"}) /\ maxMemorySize = MaxMemorySize

SpecObjects ==
    InitObjects /\ [][NextObjects]_vars

\* The analysis of the pixels: the first encode of a system, of a uniform
\* image
NextPixels ==
    \E imageData \in UniformImages, context \in Contexts, random \in Randoms :
        /\ last.op = "none"
        /\ SysEncode(imageData, context, random)

InitPixels ==
    Construct({"stable"}) /\ maxMemorySize = MaxMemorySize

SpecPixels ==
    InitPixels /\ [][NextPixels]_vars

\* ------------------------------------------------------------------------
\* Properties
\* ------------------------------------------------------------------------
\* The last call was an encode from which the encoder returned a code
Encoded ==
    last.op = "encode" /\ ~ last.encoderRaised

\* The stored code written without depth symbols: a code the decoder's
\* character class admits, with a matching checksum
PlainCode ==
    WithoutDepth(memoryBuffer[Len(memoryBuffer)].code)

\* C1: every code the encoder produces, in any mode and culture and for
\* any image of at least 16x16, is accepted by the decoder's
\* validateAndCorrect (valid = true), depth symbols included.
C1_EncodedCodeAccepted ==
    Encoded => validateAndCorrect(last.code).valid

\* C2: two back-to-back encodes of the same image with the same context on
\* one encoder instance return the same code, whatever was encoded before.
C2_SameInputSameCode ==
    [][ ( /\ last.op = "encode" /\ ~ last.encoderRaised
          /\ last'.op = "encode" /\ ~ last'.encoderRaised
          /\ last'.imageData = last.imageData
          /\ last'.context = last.context )
        => last'.code = last.code ]_vars

\* C3: the memory buffer never holds more than maxMemorySize entries, and
\* it holds the entries of the most recent successful encodes, oldest
\* first: all of them while there are at most maxMemorySize, exactly the
\* last maxMemorySize of them after more.
C3_MemoryHoldsMostRecent ==
    LET n    == Len(encodeLog)
        kept == IF n > maxMemorySize THEN maxMemorySize ELSE n
    IN  /\ Len(memoryBuffer) <= maxMemorySize
        /\ Len(memoryBuffer) = kept
        /\ \A i \in 1..kept : memoryBuffer[i] = encodeLog[n - kept + i]

\* C3 happens: more successful encodes than the buffer holds
C3_Witness ==
    /\ Len(encodeLog) > maxMemorySize
    /\ maxMemorySize > 1
    /\ Len(memoryBuffer) = maxMemorySize

C8_ZeroToORecovered ==
    ( /\ last.op = "decoderDecode"
      /\ memoryBuffer # << >>
      /\ \E i \in 1..(Len(PlainCode) - 1) :
             /\ PlainCode[i] = "0"
             /\ last.code = [PlainCode EXCEPT ![i] = "O"] )
    => /\ last.result.validated.valid
       /\ last.result.validated.code = SubSeq(PlainCode, 1, Len(PlainCode) - 1)

\* C9: a successful decode through the facade runs findEchoes over exactly
\* the entries then held in PerceptualSystem.memoryBuffer.
C9_EchoesOverFacadeMemory ==
    ( /\ last.op = "decode"
      /\ last.formatValid
      /\ last.result.validated.valid
      /\ last.fault = "none" )
    => last.result.scanned = memoryBuffer

ConfusedMismatch ==
    /\ memoryBuffer # << >>
    /\ last.code \in Confused(PlainCode)
    /\ last.code[Len(last.code)]
         # calculateChecksum(SubSeq(last.code, 1, Len(last.code) - 1))

\* C11: a code that differs from a valid code by one confusable
\* substitution in its payload, so that its checksum mismatches, is
\* recovered by PerceptualSystem.decode: the corrected code is decoded and
\* the confidence-0 fallback is not returned.
C11_ConfusedCodeRecovered ==
    (last.op = "decode" /\ ConfusedMismatch)
    => /\ last.result.validated.valid
       /\ last.result.validated.corrected
       /\ last.result.confidence > 0

\* The last call was a decode that ran through every step
Decoded ==
    /\ last.op \in {"decode", "decoderDecode"}
    /\ last.result.validated.valid
    /\ last.fault = "none"
    /\ ~ last.raised

\* C12: in decoding mode 'stable', two decodes of the same valid code with
\* the same memory buffer yield the same experience and the same
\* narrative.
C12_StableDecodeRepeats ==
    [][ ( /\ decodingMode = "stable"
          /\ Decoded
          /\ Decoded'
          /\ last'.op = last.op
          /\ last'.code = last.code
          /\ memoryBuffer' = memoryBuffer )
        => /\ last'.result.experience = last.result.experience
           /\ last'.result.narrative = last.result.narrative ]_vars


\* The last call was an encode of a uniform image whose pixels the encoder
\* analysed
UniformEncoded ==
    Encoded /\ last.imageData \in UniformImages

\* C13: for a uniform image (every pixel the same opaque colour) the edge
\* density is 0, no shape is extracted, the colours form exactly one
\* cluster of weight 1, the object segment consists of '0' only, and the
\* code has 17 characters in mobile mode.
C13_UniformImageIsEmpty ==
    UniformEncoded =>
        /\ last.perception.edgeDensity = 0
        /\ last.perception.shapes = << >>
        /\ last.perception.clusters = 1
        /\ last.perception.clusterWeights = << 1000 >>
        /\ last.segments[2] = [i \in 1..budgets[mode].objects |-> "0"]
        /\ (mode = "mobile" => Len(last.code) = 17)

\* A mobile encoder returned the code of a uniform grey 19x24 image
C13_Witness ==
    /\ UniformEncoded
    /\ mode = "mobile"
    /\ last.imageData = Painted(19, 24, 128)
    /\ Len(last.code) = 17


\* The place of an emotion symbol on the A-Z scale
ScaleOf(symbol) ==
    IndexOf(Upper, symbol)

\* C14: the blended valence and arousal are 0.7 * visual + 0.3 * contextual,
\* so when the same image is encoded with context emotion {0.9, 0.9} and
\* then with {0.1, 0.1}, the valence symbols and the arousal symbols of the
\* two emotion segments differ, those of {0.9, 0.9} being 6 steps higher on
\* the A-Z scale, give or take one.
C14_ContextShiftsEmotionSymbols ==
    [][ ( /\ Encoded /\ Encoded'
          /\ last'.imageData = last.imageData
          /\ last.context = HighContext
          /\ last'.context = LowContext )
        => /\ \A i \in 1..2 :
                 ScaleOf(last.segments[4][i]) - ScaleOf(last'.segments[4][i]) \in 5..7
           /\ ~ last'.raised =>
                 /\ 10 * memoryBuffer'[Len(memoryBuffer')].emotion.valence
                      = 7 * (10 * last'.imageData.visual.valence) + 3 * (10 * 100)
                 /\ 10 * memoryBuffer'[Len(memoryBuffer')].emotion.arousal
                      = 7 * (10 * last'.imageData.visual.arousal) + 3 * (10 * 100) ]_vars

\* The busy image was encoded with {0.9, 0.9} and then with {0.1, 0.1}
C14_Witness ==
    /\ Encoded
    /\ last.context = LowContext
    /\ last.imageData = ImgBusy
    /\ Len(encodeLog) >= 2
    /\ encodeLog[Len(encodeLog) - 1].context = HighContext
    /\ encodeLog[Len(encodeLog) - 1].emotion.valence = 7 * 600 + 3 * 900
    /\ encodeLog[Len(encodeLog)].emotion.valence = 7 * 600 + 3 * 100


Rejectable(imageData) ==
    \/ imageData = NoImage
    \/ ~ imageData.hasData
    \/ imageData.width = 0 \/ imageData.height = 0
    \/ imageData.width < 16 \/ imageData.height < 16

\* C16: encode rejects a missing or malformed image and any image with
\* width < 16 or height < 16 by raising before any analysis step runs; after
\* the rejection the encoder's emotional trajectory buffer and the facade's
\* memory buffer are unchanged.
C16_BadImageRejectedFirst ==
    [][ (last'.op = "encode" /\ Rejectable(last'.imageData))
        => /\ last'.encoderRaised /\ last'.raised
           /\ last'.perception = << >>
           /\ emotionalBuffer' = emotionalBuffer
           /\ memoryBuffer' = memoryBuffer ]_vars

\* Each kind of bad image was rejected by a system whose buffers were not
\* empty
C16_Rejected(imageData) ==
    /\ last.op = "encode" /\ last.imageData = imageData /\ last.raised
    /\ emotionalBuffer # << >> /\ memoryBuffer # << >>

C16_Witness ==
    C16_Rejected(ImgFlat)

C16_WitnessMissing ==
    C16_Rejected(NoImage)


\* The last call was a decode by the decoder whose validation returned
\* valid
ValidatedDecode ==
    last.op = "decoderDecode" /\ last.result.validated.valid

\* Some single confusable substitution in the payload of `code` makes its
\* checksum equal to the trailing character
Correctable(code) ==
    \E i \in 1..(Len(code) - 1) :
        /\ code[i] \in DOMAIN commonErrors
        /\ calculateChecksum(substituteAt(SubSeq(code, 1, Len(code) - 1), i))
             = code[Len(code)]

\* C17: whenever validateAndCorrect returns valid, the checksum computed
\* over the payload it returns equals the trailing checksum character of
\* the trimmed input; a payload that no single confusable substitution
\* makes match yields valid = false, never a corrected payload.
C17_ValidPayloadMatchesChecksum ==
    last.op = "decoderDecode" =>
        LET code == trim(last.code)
        IN  /\ last.result.validated.valid =>
                  calculateChecksum(last.result.validated.code) = code[Len(code)]
            /\ ( /\ Len(code) >= MinCodeLength
                 /\ code[Len(code)] # calculateChecksum(SubSeq(code, 1, Len(code) - 1))
                 /\ ~ Correctable(code) )
               => ~ last.result.validated.valid


\* The step of the decode state machine a call belongs to: the step that
\* makes it, and the memory lookup for the calls to the MemoryResonance
StepOf(call) ==
    IF call \in {"findObjectMemories", "findEmotionalMemories", "findEchoes"}
    THEN "memory"
    ELSE IF call \in {"reconstructScene", "reconstructObjects",
                      "reconstructSpatial", "reconstructEmotion"}
    THEN "reconstruct"
    ELSE CHOOSE step \in DOMAIN stepCalls : stepCalls[step] = call

\* The steps entered by a sequence of calls: consecutive calls of one step
\* are one run of it
RECURSIVE StepsEntered(_)
StepsEntered(calls) ==
    IF calls = << >> THEN << >>
    ELSE IF Len(calls) >= 2 /\ StepOf(calls[1]) = StepOf(calls[2])
    THEN StepsEntered(Tail(calls))
    ELSE << StepOf(calls[1]) >> \o StepsEntered(Tail(calls))

\* C18: decode follows the state machine: validation comes first; when it
\* fails none of the later steps runs and the fallback is returned; when it
\* succeeds (and no step throws) the steps run exactly once each in the
\* order segment, reconstruct, memory lookup, interpret, narrate, dream
\* logic (a pass-through in stable mode), score.
C18_DecodeFollowsStateMachine ==
    (last.op = "decoderDecode" /\ last.fault = "none") =>
        IF last.result.validated.valid
        THEN /\ StepsEntered(last.result.calls) = << "validate" >> \o DecodeSteps
             /\ decodingMode = "stable" => ~ last.result.experience.warping
        ELSE /\ StepsEntered(last.result.calls) = << "validate" >>
             /\ last.result.confidence = 0
             /\ last.result.narrative = fallbackNarrative


\* The four segments of a segmentation, in the order of the code
SegmentsOf(segmented) ==
    << segmented.scene, segmented.objects, segmented.spatial, segmented.emotion >>

\* C19: segmentCode is the inverse of the encoder's concatenation: for the
\* payload of a code the encoder produced, in any mode, it returns the four
\* strings the encoder concatenated (of lengths 3/6/4/3, 4/12/6/4,
\* 4/14/8/6), and for every payload length the validator accepts the four
\* segments concatenated are the payload.
C19_SegmentCodeInvertsConcatenation ==
    [][ last'.op = "segmentCode" =>
          /\ ( /\ Encoded
               /\ last'.code = slice(last.code, 0, Len(last.code) - 1) )
             => /\ SegmentsOf(last'.result) = last.segments
                /\ [i \in 1..4 |-> Len(last.segments[i])]
                     = << budgets[mode].scene, budgets[mode].objects,
                          budgets[mode].spatial, budgets[mode].emotion >>
          /\ last'.accepted =>
                last'.result.scene \o last'.result.objects
                  \o last'.result.spatial \o last'.result.emotion = last'.code ]_vars

\* The payload of a rich code was split into segments of 4, 14, 8 and 6
\* characters
C19_Witness ==
    /\ last.op = "segmentCode"
    /\ mode = "rich"
    /\ last.code = slice(memoryBuffer[1].code, 0, 32)
    /\ [i \in 1..4 |-> Len(SegmentsOf(last.result)[i])] = << 4, 14, 8, 6 >>

\* An accepted payload of a length between the tiers was split
C19_WitnessBetween ==
    /\ last.op = "segmentCode"
    /\ last.accepted
    /\ Len(last.code) = 29


\* C20: the object segment is filled greedily in descending
\* saliency * culturalWeight order: the shapes whose symbols appear in the
\* object segment appear in non-increasing priority order, no shape is
\* emitted while a shape of strictly higher priority considered earlier is
\* left out, and the filling stops at the first shape that does not fit,
\* the rest being padded with '0'.
C20_ObjectsInPriorityOrder ==
    (Encoded /\ last.imageData \in ShapeImages) =>
        LET shapes  == last.perception.shapes
            budget  == budgets[mode].objects
            emitted == encodedObjects(shapes, 1, 0, budget)
            used    == SumSeq([i \in 1..emitted |->
                                  symbolLengthOf(shapes[i].priority) + 1])
        IN  /\ \A i, j \in 1..emitted :
                   i < j => shapes[i].priority >= shapes[j].priority
            /\ \A i \in 1..emitted : \A j \in 1..(i - 1) :
                   shapes[j].priority > shapes[i].priority => j <= emitted
            /\ Len(last.segments[2]) = budget
            /\ \A k \in (used + 1)..budget : last.segments[2][k] = "0"
            /\ \A k \in 1..used : last.segments[2][k] # "0"

\* ------------------------------------------------------------------------
\* Reconstruction of the objects
\* ------------------------------------------------------------------------
\* SymbolInterpreter.objectMappings: the primary category of each letter
objectMappings ==
    [ c \in LowerSet |->
        CASE c = "a" -> "person"   [] c = "b" -> "child"   [] c = "c" -> "elder"
          [] c = "d" -> "animal"   [] c = "e" -> "bird"    [] c = "f" -> "tree"
          [] c = "g" -> "flower"   [] c = "h" -> "water"   [] c = "i" -> "stone"
          [] c = "j" -> "mountain" [] c = "k" -> "door"    [] c = "l" -> "window"
          [] c = "m" -> "bridge"   [] c = "n" -> "wall"    [] c = "o" -> "tower"
          [] c = "p" -> "light"    [] c = "q" -> "shadow"  [] c = "r" -> "mirror"
          [] c = "s" -> "key"      [] c = "t" -> "book"    [] c = "u" -> "spiral"
          [] c = "v" -> "void"     [] c = "w" -> "pattern" [] c = "x" -> "chaos"
          [] c = "y" -> "harmony"  [] c = "z" -> "mystery" ]

\* decodeObject(segment).type for a segment whose first character decodes
decodeObject(segment) ==
    objectMappings[toLowerCase(segment[1])]

\* reconstructObjects on the decoder `self`: the types of the objects
\* pushed, in the order of the loop (the final sort by importance permutes
\* them)
reconstructObjects(self, objectCode) ==
    LET pushed(decoded) == [ i \in 1..Len(decoded) |-> decodeObject(decoded[i]) ]
    IN  pushed(SelectSeq(objectChunks(objectCode, objectSize(self)),
                         LAMBDA objSegment :
                             /\ objSegment \notin { << "0", "0" >>, << "0", "0", "0" >> }
                             /\ decodesToObject(objSegment[1])))

\* The categories of the first type symbols of the shapes that
\* encodeObjectsWithEntropy put into a segment of `budget` characters
encodedCategories(shapes, budget) ==
    [ i \in 1..encodedObjects(shapes, 1, 0, budget) |->
        objectMappings[getSymbol("object", shapes[i].type)] ]

Count(seq, x) ==
    Cardinality({ i \in DOMAIN seq : seq[i] = x })

\* C21: reconstructObjects applied to the object segment of an encoded code
\* returns exactly one object per encoded shape, each with the category of
\* that shape's first type symbol, and no object for the padding
C21_ObjectsReconstructed ==
    (Encoded /\ last.imageData \in ShapeImages) =>
        LET got(objects, categories) ==
                /\ Len(objects) = Len(categories)
                /\ \A t \in Range(objects) \cup Range(categories) :
                       Count(objects, t) = Count(categories, t)
        IN  got(reconstructObjects(Self, last.segments[2]),
                encodedCategories(last.perception.shapes, budgets[mode].objects))

\* ------------------------------------------------------------------------
\* Positions.  A decoded position is kept in 150ths of the frame, so that
\* the cell centres (gx + 0.5) / 3 and the quantised values idx / 25 are
\* whole numbers.
\* ------------------------------------------------------------------------
\* String.prototype.toUpperCase for one character
toUpperCase(c) ==
    IF c \in LowerSet THEN Upper[IndexOf(Lower, c)] ELSE c

decodeQuantizedValue(ch) ==
    LET clamped(idx) == IF idx < 0 THEN 0 ELSE IF idx > 25 THEN 25 ELSE idx
    IN  6 * clamped(charCodeAt(toUpperCase(ch)) - 65)

\* decodePosition(symbols): grid is '123456789'
decodePosition(symbols) ==
    LET grid    == << "1", "2", "3", "4", "5", "6", "7", "8", "9" >>
        cell(i) == [ x |-> 25 * (2 * (i % 3) + 1), y |-> 25 * (2 * (i \div 3) + 1) ]
    IN  IF Len(symbols) = 1 /\ symbols[1] \in Range(grid)
        THEN cell(IndexOf(grid, symbols[1]) - 1)
        ELSE IF Len(symbols) = 2
        THEN [ x |-> decodeQuantizedValue(symbols[1]),
               y |-> decodeQuantizedValue(symbols[2]) ]
        ELSE [ x |-> 75, y |-> 75 ]

\* encoder.encodePosition(centroid, boundingBox, 1) on an encoder whose
\* image is width x height, and decodePosition of the tag it returns
EncodePosition(centroid, width, height) ==
    /\ \E tag \in {encodePosition(centroid, width, height)} :
           last' = [ op |-> "encodePosition", centroid |-> centroid,
                     width |-> width, height |-> height, tag |-> tag,
                     decoded |-> decodePosition(<< tag >>) ]
    /\ UNCHANGED << npc, mode, culture, decodingMode, maxMemorySize, emotionalBuffer,
                    memoryBuffer, decoderArray, decoder, clock, encodeLog >>

\* Image sizes, and the coordinates at the ends of the three thirds of a side
PositionSizes ==
    { << 64, 64 >>, << 280, 200 >> }

Thirds(side) ==
    { 0, side \div 3, side \div 3 + 1, (2 * side) \div 3, (2 * side) \div 3 + 1,
      side - 1 }

\* The scene types classifySceneType returns
SceneTypes ==
    {w_natural, w_architectural, w_portrait, w_complex, w_minimal, w_general}

\* The scene symbol encodeSceneContext emits for a perception classified
\* as `type`, and decodeSceneType of that symbol
EncodeScene(type) ==
    /\ \E symbol \in {getSymbol("scene", type)} :
           last' = [ op |-> "encodeScene", type |-> type, symbol |-> symbol,
                     decoded |-> decodeSceneType(symbol) ]
    /\ UNCHANGED << npc, mode, culture, decodingMode, maxMemorySize, emotionalBuffer,
                    memoryBuffer, decoderArray, decoder, clock, encodeLog >>

\* The tables of the two sides applied to values taken one at a time
NextTables ==
    \/ \E size \in PositionSizes :
           \E x \in Thirds(size[1]), y \in Thirds(size[2]) :
               EncodePosition([x |-> x, y |-> y], size[1], size[2])
    \/ \E type \in SceneTypes :
           EncodeScene(type)

InitTables ==
    Construct({"stable"}) /\ maxMemorySize = MaxMemorySize

SpecTables ==
    InitTables /\ [][NextTables]_vars

\* C22: decodePosition applied to the 1-symbol tag that encodePosition emits
\* for a centroid inside the image returns the centre of the cell of the
\* 3x3 grid that contains the centroid
C22_PositionDecodesToCell ==
    last.op = "encodePosition" =>
        LET gx == (3 * last.centroid.x) \div last.width
            gy == (3 * last.centroid.y) \div last.height
        IN  last.decoded = [ x |-> 25 * (2 * gx + 1), y |-> 25 * (2 * gy + 1) ]

\* C23: decodeSceneType applied to the scene symbol the encoder emits for a
\* scene type it can classify returns that scene type
C23_SceneDecodesToType ==
    last.op = "encodeScene" => last.decoded = last.type

\* ------------------------------------------------------------------------
\* findEchoes on memory contents of every kind
\* ------------------------------------------------------------------------
\* The payload decoded and its emotion (ten-thousandths)
EchoCode ==
    << "F","K","V","0","0","0","0","0","0","X","4","X","A","N","K","6" >>

EchoEmotion ==
    [valence |-> 5000, arousal |-> 5000]

\* A stored entry whose code agrees with EchoCode on the first `same`
\* characters, stored `age` ticks before the construction of the system
Memory(same, emotion, age) ==
    [ code      |-> withChecksum([ i \in 1..Len(EchoCode) |->
                                     IF i <= same THEN EchoCode[i] ELSE "z" ]),
      timestamp |-> 1 - age,
      context   |-> [emotion |-> NoEmotion],
      emotion   |-> emotion ]

\* Entries that pass by both thresholds, by similarity alone (0.316, and
\* 0.53 with a far emotion), by resonance alone (0.75), and by neither
\* (similarity 0, resonance 0.5)
MemoryPool ==
    { Memory(16, EchoEmotion, 0),
      Memory(6, NoEmotion, 0),
      Memory(16, [valence |-> 10000, arousal |-> 10000], 2),
      Memory(0, [valence |-> 7000, arousal |-> 8000], 1),
      Memory(0, [valence |-> 10000, arousal |-> 10000], 0) }

MaxEchoMemories == 6

RECURSIVE SeqsUpTo(_, _)
SeqsUpTo(S, n) ==
    IF n = 0 THEN { << >> }
    ELSE LET shorter == SeqsUpTo(S, n - 1)
         IN  shorter \cup { Append(q, x) : q \in { r \in shorter : Len(r) = n - 1 },
                                           x \in S }

\* memoryResonance.findEchoes(currentCode, currentEmotion) on a
\* MemoryResonance object that holds the array `memories`
FindEchoes(memories, currentCode, currentEmotion) ==
    /\ last' = [ op |-> "findEchoes", memories |-> memories,
                 code |-> currentCode, emotion |-> currentEmotion,
                 result |-> findEchoes(memories, currentCode, currentEmotion, clock) ]
    /\ UNCHANGED << npc, mode, culture, decodingMode, maxMemorySize, emotionalBuffer,
                    memoryBuffer, decoderArray, decoder, clock, encodeLog >>

\* The first call made on a MemoryResonance object
NextEchoes ==
    \E memories \in SeqsUpTo(MemoryPool, MaxEchoMemories) :
        /\ last.op = "none"
        /\ FindEchoes(memories, EchoCode, EchoEmotion)

InitEchoes ==
    /\ Construct({"stable"})
    /\ maxMemorySize = MaxMemorySize
    /\ mode = "mobile"
    /\ culture = "universal"

SpecEchoes ==
    InitEchoes /\ [][NextEchoes]_vars

\* The entry passes a threshold: similarity > 0.3 or resonance > 0.6
Resonates(memory) ==
    \/ similarityOver(last.code, memory.code)
    \/ resonanceOver(last.emotion, memory.emotion)

StrengthOf(memory) ==
    calculateMemoryStrength(memory, last.code, last.emotion, clock)

\* C24: findEchoes returns at most 5 echoes, ordered by non-increasing
\* strength, each of a stored entry with similarity > 0.3 or emotional
\* resonance > 0.6, and no stored entry that meets the threshold and was
\* left out is stronger than a returned one
C24_EchoesAreTheStrongestFive ==
    last.op = "findEchoes" =>
        LET result   == last.result
            memories == last.memories
            passing  == { i \in DOMAIN memories : Resonates(memories[i]) }
        IN  /\ Len(result) <= 5
            /\ Len(result) = (IF Cardinality(passing) < 5 THEN Cardinality(passing)
                              ELSE 5)
            /\ \A i, j \in DOMAIN result :
                   i < j => StrengthOf(result[i]) >= StrengthOf(result[j])
            /\ \A i \in DOMAIN result : Resonates(result[i])
            /\ \A m \in Range(result) : Count(result, m) <= Count(memories, m)
            /\ \A m \in Range(memories) :
                   (Resonates(m) /\ Count(result, m) < Count(memories, m)) =>
                       \A i \in DOMAIN result : StrengthOf(m) <= StrengthOf(result[i])

\* Six entries pass, of different strengths, and the one left out is
\* strictly weaker than the first echo returned
C24_Witness ==
    /\ last.op = "findEchoes"
    /\ Len(last.result) = 5
    /\ Cardinality({ i \in DOMAIN last.memories : Resonates(last.memories[i]) }) = 6
    /\ StrengthOf(last.result[1]) > StrengthOf(last.result[5])
    /\ \E m \in Range(last.memories) :
           /\ Resonates(m)
           /\ Count(last.result, m) < Count(last.memories, m)
           /\ StrengthOf(m) < StrengthOf(last.result[1])

\* ------------------------------------------------------------------------
\* The trajectory buffer over many encodes of one encoder
\* ------------------------------------------------------------------------
MaxPushes == 12

\* The samples that the calls so far have pushed, in arrival order
PushedSoFar ==
    IF last.op = "encoderEncode" THEN last.pushed ELSE << >>

\* encoder.encode(imageData, context), called on the encoder itself.  The
\* clock ticks when analyzeEmotion reads it for the sample's timestamp.
EncoderEncode(imageData, context, random) ==
    /\ Len(PushedSoFar) < MaxPushes
    /\ \E result \in {encoderEncode(emotionalBuffer, imageData, context, mode,
                                    culture, random)} :
       \E analysed \in {validateInput(imageData)} :
          /\ emotionalBuffer' = result.buffer
          /\ clock' = IF analysed THEN clock + 1 ELSE clock
          /\ last' = [ op           |-> "encoderEncode",
                       imageData    |-> imageData,
                       raised       |-> result.raised,
                       analysed     |-> analysed,
                       bufferBefore |-> emotionalBuffer,
                       pushed       |-> IF analysed
                                        THEN Append(PushedSoFar,
                                                    result.perception.visual)
                                        ELSE PushedSoFar ]
          /\ UNCHANGED << npc, mode, culture, decodingMode, maxMemorySize, memoryBuffer,
                          decoderArray, decoder, encodeLog >>

\* Any sequence of encodes of a bright image, a busy one and one that is
\* too small
NextBuffer ==
    \E imageData \in {ImgBlank, ImgBusy, ImgSmall} :
        EncoderEncode(imageData, [emotion |-> NoEmotion], 0)

InitBuffer ==
    Construct({"stable"}) /\ maxMemorySize = MaxMemorySize

SpecBuffer ==
    InitBuffer /\ [][NextBuffer]_vars

\* The last n elements of a sequence (all of them when it is shorter)
LastOf(seq, n) ==
    SubSeq(seq, IF Len(seq) > n THEN Len(seq) - n + 1 ELSE 1, Len(seq))

\* C25: after any sequence of encode calls on one encoder the emotional
\* trajectory buffer holds at most 10 samples, and they are the most recent
\* samples pushed (all of them up to 10, the last 10 beyond), in arrival
\* order
C25_BufferIsLastTenPushed ==
    /\ Len(emotionalBuffer) <= 10
    /\ last.op = "encoderEncode" => emotionalBuffer = LastOf(last.pushed, 10)

\* Twelve samples were pushed, and the two evicted differ from each other
\* and from the two that arrived last
C25_Witness ==
    /\ last.op = "encoderEncode"
    /\ Len(last.pushed) = 12
    /\ Len(emotionalBuffer) = 10
    /\ last.pushed[1] # last.pushed[11]
    /\ last.pushed[2] # last.pushed[12]
    /\ last.pushed[1] # last.pushed[2]

\* ------------------------------------------------------------------------
\* extractShapes on edge maps of every kind
\* ------------------------------------------------------------------------
\* The sizes of the edge maps, width and height
EdgeMapSizes ==
    { <<3, 3>>, <<4, 3>>, <<3, 4>> }

\* encoder.extractShapes(edgeMap, width, height), where `over` is the set
\* of the indices whose edge value is over EDGE_THRESHOLD
ExtractShapes(over, width, height) ==
    /\ last' = [ op |-> "extractShapes", over |-> over,
                 width |-> width, height |-> height,
                 shapes |-> extractShapesFrom(over, {}, << >>, width, height) ]
    /\ UNCHANGED << npc, mode, culture, decodingMode, maxMemorySize, emotionalBuffer,
                    memoryBuffer, decoderArray, decoder, clock, encodeLog >>

\* The first call made on an encoder
NextContours ==
    \E size \in EdgeMapSizes :
        \E over \in SUBSET (0..(size[1] * size[2] - 1)) :
            /\ last.op = "none"
            /\ ExtractShapes(over, size[1], size[2])

InitContours ==
    /\ Construct({"stable"})
    /\ maxMemorySize = MaxMemorySize
    /\ mode = "balanced"
    /\ culture = "universal"

SpecContours ==
    InitContours /\ [][NextContours]_vars

\* The index of a point in the edge map: y * width + x
pixelIndexOf(point, width) ==
    point.y * width + point.x

\* C26: the contour walk ends after at most width * height steps on every
\* edge map, cyclic contours included, and extractShapes ends: every shape
\* has at most width * height points, no pixel occurs twice among the
\* points of a shape or in two shapes, and the shapes cover exactly the
\* edge pixels
C26_WalkBoundedNoPixelTwice ==
    last.op = "extractShapes" =>
        LET shapes == last.shapes
            width  == last.width
            pixels(k) == { pixelIndexOf(shapes[k].points[i], width) :
                             i \in DOMAIN shapes[k].points }
        IN  /\ \A k \in DOMAIN shapes :
                   /\ Len(shapes[k].points) >= 1
                   /\ Len(shapes[k].points) - 1 <= width * last.height
                   /\ Cardinality(pixels(k)) = Len(shapes[k].points)
                   /\ pixels(k) \subseteq last.over
            /\ \A k, l \in DOMAIN shapes : k # l => pixels(k) \cap pixels(l) = {}
            /\ UNION { pixels(k) : k \in DOMAIN shapes } = last.over

\* A closed contour around a pixel that is no edge (the ring of the 3x3
\* map), walked as one shape of eight points
C26_Witness ==
    /\ last.op = "extractShapes"
    /\ last.width = 3 /\ last.height = 3
    /\ last.over = (0..8) \ {4}
    /\ Len(last.shapes) = 1
    /\ Len(last.shapes[1].points) = 8

\* C27: the segment sub-alphabets are pairwise disjoint: no character that
\* the encoder emits in one of the four segments (scene, objects, spatial,
\* emotion), fillers included, is emitted by it in another segment
C27_SegmentAlphabetsDisjoint ==
    Encoded =>
        \A s, t \in 1..4 :
            s # t => Range(last.segments[s]) \cap Range(last.segments[t]) = {}

\* C28: the checksum detects every single confusable substitution: for a
\* valid code, replacing one payload character by its confusable partner
\* (0 <-> O, 1 <-> I, 5 <-> S) at any payload position changes the expected
\* checksum, so the altered code fails the checksum test of
\* SymbolValidator.validate and of verifyChecksum
C28_ConfusableSubstitutionDetected ==
    (Encoded /\ validate(last.code)) =>
        \A i \in 1..(Len(last.code) - 1) :
            last.code[i] \in DOMAIN commonErrors =>
                LET altered == substituteAt(last.code, i)
                    payload == slice(altered, 0, Len(altered) - 1)
                IN  /\ calculateChecksum(payload)
                         # calculateChecksum(slice(last.code, 0, Len(last.code) - 1))
                    /\ ~ validate(altered)
                    /\ ~ verifyChecksum(payload, altered[Len(altered)])

\* ------------------------------------------------------------------------
\* Encodes that raise after the input validation
\* ------------------------------------------------------------------------
\* encode(image, {emotion: {valence: 0.9}}): the arousal is undefined, and
\* NaN in every sum it enters
PartialContext ==
    [emotion |-> [valence |-> 900, arousal |-> NaN]]

MaxSamples == 3

\* Encodes of two images, with no context emotion or with the partial one,
\* while the trajectory buffer holds fewer than MaxSamples samples
NextPartial ==
    \E imageData \in {ImgBlank, ImgBusy, ImgSmall} :
        \E context \in {[emotion |-> NoEmotion], PartialContext} :
            /\ Len(emotionalBuffer) < MaxSamples
            /\ SysEncode(imageData, context, 0)

InitPartial ==
    Construct({"stable"}) /\ maxMemorySize = MaxMemorySize

SpecPartial ==
    InitPartial /\ [][NextPartial]_vars

\* C29: a failed encode is atomic for the encoder: when encode raises after
\* the input validation (the segment assertion of encodeToSymbols, or the
\* facade's self-check rejecting the code), the emotional trajectory buffer
\* is the same as before the call
C29_FailedEncodeKeepsBuffer ==
    (last.op = "encode" /\ last.raised /\ validateInput(last.imageData)) =>
        emotionalBuffer = last.bufferBefore

\* ------------------------------------------------------------------------
\* The NPC and its failsafe
\* ------------------------------------------------------------------------
\* Abuse by harm (alone it reaches the suffering limit at the second
\* incident, personal and with history at the first one), abuse by control
\* (0.1 of suffering each: the third incident reaches the threshold), harm
\* below the severity of abuse, clear and faint kindness
Events ==
    { Event("harm", 800, 0, FALSE, FALSE),
      Event("harm", 800, 0, TRUE, TRUE),
      Event("harm", 500, 0, FALSE, FALSE),
      Event("control", 0, 950, FALSE, FALSE),
      Event("kindness", 0, 950, FALSE, FALSE),
      Event("kindness", 0, 500, FALSE, FALSE) }

MaxLanternLog == 6

\* npc.perceive(event)
Perceive(event) ==
    /\ Len(npc.lanternLog) < MaxLanternLog
    /\ npc' = perceive(npc, event)
    /\ last' = [op |-> "perceive", event |-> event, before |-> npc, raised |-> FALSE]
    /\ UNCHANGED << mode, culture, decodingMode, maxMemorySize, emotionalBuffer,
                    memoryBuffer, decoderArray, decoder, clock, encodeLog >>

\* npc.attemptReturn(kindnessEvent)
AttemptReturn(kindnessEvent) ==
    /\ Len(npc.lanternLog) < MaxLanternLog
    /\ \E outcome \in {attemptReturn(npc, kindnessEvent)} :
          /\ npc' = outcome.npc
          /\ last' = [ op |-> "attemptReturn", event |-> kindnessEvent,
                       before |-> npc, raised |-> outcome.raised ]
    /\ UNCHANGED << mode, culture, decodingMode, maxMemorySize, emotionalBuffer,
                    memoryBuffer, decoderArray, decoder, clock, encodeLog >>

NextNPC ==
    \/ \E event \in Events : Perceive(event)
    \/ \E event \in Events : AttemptReturn(event)

\* An NPC built with lockdown on (the default) or off, beside a system
InitNPC ==
    /\ mode = "mobile"
    /\ culture = "universal"
    /\ decodingMode = "stable"
    /\ maxMemorySize = MaxMemorySize
    /\ emotionalBuffer = << >>
    /\ memoryBuffer = << >>
    /\ decoderArray = << >>
    /\ decoder = [memoryBuffer |-> "own", memories |-> "own"]
    /\ clock = 1
    /\ encodeLog = << >>
    /\ last = [op |-> "none"]
    /\ npc \in { NewNPC(lockdown) : lockdown \in BOOLEAN }

SpecNPC ==
    InitNPC /\ [][NextNPC]_vars

\* C30: for an NPC with lockdown on, after the failsafe has triggered,
\* perceive has no effect on any field, attemptReturn with a kindness event
\* of intensity > 0.9 completes without raising and leaves the NPC active
\* with suffering 0, abuseIncidents 0 and failsafeTriggered false, and
\* attemptReturn with any other event leaves it inactive
C30_FailsafeHoldsUntilKindness ==
    (last.op \in {"perceive", "attemptReturn"}
        /\ last.before.lockdown /\ last.before.failsafeTriggered) =>
        IF last.op = "perceive" THEN npc = last.before
        ELSE IF last.event.type = "kindness" /\ last.event.intensity > 900
        THEN /\ ~ last.raised
             /\ npc.active
             /\ npc.suffering = 0
             /\ npc.abuseIncidents = 0
             /\ ~ npc.failsafeTriggered
        ELSE ~ npc.active /\ ~ last.raised

====
